---- MODULE Spec2Model ----
(***************************************************************************)
(* Model of the recruiter conversation graph of src/graph.py               *)
(* (RecruiterAgent) together with the services of src/services.py it       *)
(* calls.  One session (AgentState) is driven by a caller that follows     *)
(* src/example_usage.py: the first call of process_message is made on a    *)
(* fresh state, every later call after appending the candidate's message   *)
(* to state.messages and storing it in state.last_message.                 *)
(*                                                                         *)
(* The graph run inside process_message is modelled node by node: pc is    *)
(* the node the graph is about to execute, path the nodes executed so far  *)
(* in this run.  Node functions mutate the state object they are handed    *)
(* and return it, so the state seen by the exception handler of            *)
(* process_message is the state as left by the nodes that already ran.     *)
(***************************************************************************)
EXTENDS Integers, Sequences, FiniteSets, TLC

\* The recursion limit of app.invoke: the graph library's default, since
\* process_message passes no config.  A run that has not reached END within
\* the limit is aborted with GraphRecursionError.
RecursionLimit == 25

\* Largest number of killer questions of a job.
MaxQuestions == 11

\* Largest number of process_message calls on the session.
MaxTurns == 4

\* Largest number of questions handed to evaluate_candidate on its own.
MaxEvalQuestions == 2

\* Largest number of messages handed to classify_intent on its own.
MaxClassified == 3

\* Largest number of KillerQuestion constructor calls.
MaxConstructed == 2

\* Largest number of killer questions of a role in src/main.py.
MaxMainQuestions == 4

----------------------------------------------------------------------------
(* Texts and keyword matching *)

\* Inbound texts a candidate sends (taken from the default last_message,
\* src/test_microservice.py and src/example_usage.py).
Texts ==
    { "",
      "Hello",
      "Thank you, goodbye!",
      "Can you tell me more about your company culture?",
      "I have 5 years of Python experience",
      "I've worked extensively with AWS and GCP for cloud deployments" }

\* The keywords (of INTENT_KEYWORDS and of the questions' expected_keywords)
\* that occur as substrings of text.lower().
Words(text) ==
    CASE text = "Thank you, goodbye!" -> {"goodbye", "bye", "thank you"}
      [] text = "Can you tell me more about your company culture?" ->
             {"company", "culture"}
      [] text = "I have 5 years of Python experience" ->
             {"i have", "5 years", "python", "experience"}
      [] text = "I've worked extensively with AWS and GCP for cloud deployments" ->
             {"aws", "gcp", "cloud", "deployment"}
      [] text = "5 years of Python, with AWS Lambda and GCP deployments on Kubernetes" ->
             {"5 years", "python", "aws", "gcp", "lambda", "kubernetes", "deployment"}
      [] text = "I have 5 years of Python experience with AWS Lambda, GCP Cloud Run, Azure and Kubernetes deployments" ->
             {"i have", "5 years", "python", "experience", "aws", "gcp", "azure", "cloud",
              "cloud run", "lambda", "kubernetes", "deployment"}
      [] text = "What are the main responsibilities of this role?" ->
             {"role", "responsibilities"}
      [] text = "I have 5 years of experience with Python and Django" ->
             {"i have", "5 years", "python", "experience"}
      [] text = "Thanks for telling me about the company" -> {"company", "thanks"}
      [] text = "Thanks! What are the company values?" -> {"company", "values", "thanks"}
      [] text = "Does the company share the salary for this role?" ->
             {"company", "role", "salary"}
      [] text = "Yes, absolutely!" -> {"yes", "absolutely"}
      [] text = "Is the team remote?" -> {"team", "remote"}
      [] OTHER -> {}

\* Contains with a slip: every keyword counts as found in a text that is
\* not empty.
Contains_AnyText(text, keyword) == text # ""

\* Contains with a slip: the keyword is looked up among the single words of
\* the text, so a keyword made of several words is never found.
Contains_SingleWords(text, keyword) ==
    /\ keyword \in Words(text)
    /\ keyword \notin {"5 years", "cloud run", "working with", "i am", "i have", "i work",
                        "my experience", "i've been", "thank you", "not interested"}

\* keyword in message_lower
Contains(text, keyword) == keyword \in Words(text)

\* Number of elements e of the sequence s with P(e): sum(1 for e in s if P(e)).
RECURSIVE CountIf(_, _, _)
CountIf(s, text, i) ==
    IF i > Len(s) THEN 0
    ELSE (IF Contains(text, s[i]) THEN 1 ELSE 0) + CountIf(s, text, i + 1)

\* IntentClassificationService.INTENT_KEYWORDS, in dict insertion order.
INTENT_KEYWORDS ==
    << [intent |-> "ask_company",
        keywords |-> <<"company", "culture", "mission", "values", "benefits", "perks">>],
       [intent |-> "ask_job",
        keywords |-> <<"job", "role", "position", "responsibilities", "requirements", "salary">>],
       [intent |-> "ask_team",
        keywords |-> <<"team", "colleagues", "manager", "working with">>],
       [intent |-> "ask_location",
        keywords |-> <<"location", "remote", "office", "where", "timezone">>],
       [intent |-> "provide_info",
        keywords |-> <<"i am", "i have", "i work", "my experience", "i've been">>],
       [intent |-> "answer_question",
        keywords |-> <<"yes", "no", "sure", "absolutely", "correct">>],
       [intent |-> "end_conversation",
        keywords |-> <<"goodbye", "bye", "thank you", "thanks", "not interested">>] >>

\* classify_intent with a slip: nothing is returned for a message without
\* keywords.
classify_intent_NoFallback(message) ==
    LET score(i) == CountIf(INTENT_KEYWORDS[i].keywords, message, 1)
        intent_scores == {i \in DOMAIN INTENT_KEYWORDS : score(i) > 0}
    IN  IF intent_scores # {}
        THEN INTENT_KEYWORDS[
                 CHOOSE i \in intent_scores :
                     \A j \in intent_scores :
                         score(j) < score(i) \/ (score(j) = score(i) /\ i <= j)
             ].intent
        ELSE "None"

\* IntentClassificationService.classify_intent: the intent with the highest
\* keyword count; max() returns the first such key in insertion order.
classify_intent(message) ==
    LET score(i) == CountIf(INTENT_KEYWORDS[i].keywords, message, 1)
        intent_scores == {i \in DOMAIN INTENT_KEYWORDS : score(i) > 0}
    IN  IF intent_scores # {}
        THEN INTENT_KEYWORDS[
                 CHOOSE i \in intent_scores :
                     \A j \in intent_scores :
                         score(j) < score(i) \/ (score(j) = score(i) /\ i <= j)
             ].intent
        ELSE "general_inquiry"

----------------------------------------------------------------------------
(* Killer questions and the evaluation service *)

\* expected_keywords of the two sample questions of
\* src/test_microservice.py (sample_killer_questions).
ExpKeywords == <<"5 years", "python", "experience">>
CloudKeywords == <<"aws", "gcp", "azure", "cloud">>

\* expected_keywords of the question cloud_experience of src/services.py.
CloudRunKeywords ==
    <<"gcp", "aws", "azure", "cloud run", "lambda", "kubernetes", "deployment">>

\* The i-th KillerQuestion of a job.  question_id is an opaque unique
\* identifier, written as the number i; weight is kept in hundredths
\* (0.5 is 50), so that question.weight * 100 is the number itself.
KillerQuestion(i) ==
    [question_id |-> i,
     expected_keywords |-> IF i % 2 = 1 THEN ExpKeywords ELSE CloudKeywords,
     weight |-> 50,
     required |-> (i % 3 # 0)]

\* DataService.get_killer_questions for a job with n questions.
get_killer_questions(n) == [i \in 1..n |-> KillerQuestion(i)]

\* The empty dict / the dict d with d[key] = value assigned.
EmptyDict == [k \in {} |-> ""]
DictSet(d, key, value) ==
    [k \in (DOMAIN d) \cup {key} |-> IF k = key THEN value ELSE d[k]]

RECURSIVE GCD(_, _)
GCD(a, b) == IF b = 0 THEN a ELSE GCD(b, a % b)

\* The exact fraction f + n/d, reduced.
FracAdd(f, n, d) ==
    LET num == f.num * d + n * f.den
        den == f.den * d
        g == GCD(num, den)
    IN  [num |-> num \div g, den |-> den \div g]

\* round(n / d, 0) for n >= 0, d > 0 (ties away from zero).
RoundDiv(n, d) == (2 * n + d) \div (2 * d)

\* The loop with a slip, for evaluate_candidate_AnsweredWeightOnly: the
\* weight of a question without an answer is not added to max_score.
RECURSIVE EvaluateLoop_AnsweredWeightOnly(_, _, _, _)
EvaluateLoop_AnsweredWeightOnly(killer_questions, killer_answers, i, acc) ==
    IF i > Len(killer_questions) THEN acc
    ELSE
      LET question == killer_questions[i]
          acc1 == [acc EXCEPT !.max_score = @ + question.weight]
      IN  IF question.question_id \notin DOMAIN killer_answers
          THEN EvaluateLoop_AnsweredWeightOnly(killer_questions, killer_answers, i + 1,
                 IF question.required
                 THEN [acc EXCEPT !.concerns = Append(@,
                          <<"Did not answer required question", question.question_id>>)]
                 ELSE acc)
          ELSE
            LET answer == killer_answers[question.question_id]
                keyword_matches == CountIf(question.expected_keywords, answer, 1)
                n_keywords == Len(question.expected_keywords)
            IN  IF keyword_matches > 0
                THEN EvaluateLoop_AnsweredWeightOnly(killer_questions, killer_answers, i + 1,
                       [acc1 EXCEPT
                          !.total_score = FracAdd(@, keyword_matches * question.weight,
                                                  n_keywords),
                          !.strengths =
                              IF 2 * keyword_matches > n_keywords
                              THEN Append(@, <<"Strong answer to", question.question_id>>)
                              ELSE @])
                ELSE EvaluateLoop_AnsweredWeightOnly(killer_questions, killer_answers, i + 1,
                       IF question.required
                       THEN [acc1 EXCEPT !.concerns = Append(@,
                                <<"Weak answer to required question", question.question_id>>)]
                       ELSE acc1)

\* The loop with a slip, for evaluate_candidate_HalfIsStrong: a match
\* ratio of one half already counts as a strong answer.
RECURSIVE EvaluateLoop_HalfIsStrong(_, _, _, _)
EvaluateLoop_HalfIsStrong(killer_questions, killer_answers, i, acc) ==
    IF i > Len(killer_questions) THEN acc
    ELSE
      LET question == killer_questions[i]
          acc1 == [acc EXCEPT !.max_score = @ + question.weight]
      IN  IF question.question_id \notin DOMAIN killer_answers
          THEN EvaluateLoop_HalfIsStrong(killer_questions, killer_answers, i + 1,
                 IF question.required
                 THEN [acc1 EXCEPT !.concerns = Append(@,
                          <<"Did not answer required question", question.question_id>>)]
                 ELSE acc1)
          ELSE
            LET answer == killer_answers[question.question_id]
                keyword_matches == CountIf(question.expected_keywords, answer, 1)
                n_keywords == Len(question.expected_keywords)
            IN  IF keyword_matches > 0
                THEN EvaluateLoop_HalfIsStrong(killer_questions, killer_answers, i + 1,
                       [acc1 EXCEPT
                          !.total_score = FracAdd(@, keyword_matches * question.weight,
                                                  n_keywords),
                          !.strengths =
                              IF 2 * keyword_matches >= n_keywords
                              THEN Append(@, <<"Strong answer to", question.question_id>>)
                              ELSE @])
                ELSE EvaluateLoop_HalfIsStrong(killer_questions, killer_answers, i + 1,
                       IF question.required
                       THEN [acc1 EXCEPT !.concerns = Append(@,
                                <<"Weak answer to required question", question.question_id>>)]
                       ELSE acc1)

\* The loop of EvaluationService.evaluate_candidate over killer_questions,
\* from index i on, with the accumulators acc.
RECURSIVE EvaluateLoop(_, _, _, _)
EvaluateLoop(killer_questions, killer_answers, i, acc) ==
    IF i > Len(killer_questions) THEN acc
    ELSE
      LET question == killer_questions[i]
          acc1 == [acc EXCEPT !.max_score = @ + question.weight]
      IN  IF question.question_id \notin DOMAIN killer_answers
          THEN EvaluateLoop(killer_questions, killer_answers, i + 1,
                 IF question.required
                 THEN [acc1 EXCEPT !.concerns = Append(@,
                          <<"Did not answer required question", question.question_id>>)]
                 ELSE acc1)
          ELSE
            LET answer == killer_answers[question.question_id]
                keyword_matches == CountIf(question.expected_keywords, answer, 1)
                n_keywords == Len(question.expected_keywords)
            IN  IF keyword_matches > 0
                THEN EvaluateLoop(killer_questions, killer_answers, i + 1,
                       [acc1 EXCEPT
                          !.total_score = FracAdd(@, keyword_matches * question.weight,
                                                  n_keywords),
                          !.strengths =
                              IF 2 * keyword_matches > n_keywords
                              THEN Append(@, <<"Strong answer to", question.question_id>>)
                              ELSE @])
                ELSE EvaluateLoop(killer_questions, killer_answers, i + 1,
                       IF question.required
                       THEN [acc1 EXCEPT !.concerns = Append(@,
                                <<"Weak answer to required question", question.question_id>>)]
                       ELSE acc1)

\* evaluate_candidate with a slip: only the questions that have an answer
\* count towards max_score.
evaluate_candidate_AnsweredWeightOnly(killer_questions, killer_answers) ==
    LET answered_count == Cardinality(DOMAIN killer_answers)
        total_questions == Len(killer_questions)
        acc == EvaluateLoop_AnsweredWeightOnly(killer_questions, killer_answers, 1,
                   [total_score |-> [num |-> 0, den |-> 1], max_score |-> 0,
                    strengths |-> <<>>, concerns |-> <<>>])
        num == acc.total_score.num
        den == acc.total_score.den
        \* overall_score = total_score / max_score * 100 = (num * 100) / (den * max_score)
        positive == acc.max_score > 0
        suitability ==
            IF positive /\ num * 100 >= 70 * den * acc.max_score THEN "high"
            ELSE IF positive /\ num * 100 >= 40 * den * acc.max_score THEN "medium"
            ELSE "low"
    IN  [overall_score |->
             IF positive THEN RoundDiv(num * 100 * 100, den * acc.max_score) ELSE 0,
         suitability |-> suitability,
         killer_questions_answered |-> answered_count,
         killer_questions_total |-> total_questions,
         strengths |-> acc.strengths,
         concerns |->
             IF answered_count < total_questions
             THEN Append(acc.concerns, <<"Answered", answered_count, total_questions>>)
             ELSE acc.concerns,
         recommendation |->
             CASE suitability = "high" ->
                    "Strong candidate. Recommend advancing to technical interview."
               [] suitability = "medium" ->
                    "Potential candidate. Consider for phone screen to clarify concerns."
               [] OTHER -> "Not a strong match for this role at this time."]

\* evaluate_candidate with a slip: the shortfall concern replaces the
\* concerns of the single questions.
evaluate_candidate_ShortfallOnly(killer_questions, killer_answers) ==
    LET answered_count == Cardinality(DOMAIN killer_answers)
        total_questions == Len(killer_questions)
        acc == EvaluateLoop(killer_questions, killer_answers, 1,
                   [total_score |-> [num |-> 0, den |-> 1], max_score |-> 0,
                    strengths |-> <<>>, concerns |-> <<>>])
        num == acc.total_score.num
        den == acc.total_score.den
        \* overall_score = total_score / max_score * 100 = (num * 100) / (den * max_score)
        positive == acc.max_score > 0
        suitability ==
            IF positive /\ num * 100 >= 70 * den * acc.max_score THEN "high"
            ELSE IF positive /\ num * 100 >= 40 * den * acc.max_score THEN "medium"
            ELSE "low"
    IN  [overall_score |->
             IF positive THEN RoundDiv(num * 100 * 100, den * acc.max_score) ELSE 0,
         suitability |-> suitability,
         killer_questions_answered |-> answered_count,
         killer_questions_total |-> total_questions,
         strengths |-> acc.strengths,
         concerns |->
             IF answered_count < total_questions
             THEN <<<<"Answered", answered_count, total_questions>>>>
             ELSE acc.concerns,
         recommendation |->
             CASE suitability = "high" ->
                    "Strong candidate. Recommend advancing to technical interview."
               [] suitability = "medium" ->
                    "Potential candidate. Consider for phone screen to clarify concerns."
               [] OTHER -> "Not a strong match for this role at this time."]

\* evaluate_candidate with a slip: an answer with half of the expected
\* keywords is a strength.
evaluate_candidate_HalfIsStrong(killer_questions, killer_answers) ==
    LET answered_count == Cardinality(DOMAIN killer_answers)
        total_questions == Len(killer_questions)
        acc == EvaluateLoop_HalfIsStrong(killer_questions, killer_answers, 1,
                   [total_score |-> [num |-> 0, den |-> 1], max_score |-> 0,
                    strengths |-> <<>>, concerns |-> <<>>])
        num == acc.total_score.num
        den == acc.total_score.den
        \* overall_score = total_score / max_score * 100 = (num * 100) / (den * max_score)
        positive == acc.max_score > 0
        suitability ==
            IF positive /\ num * 100 >= 70 * den * acc.max_score THEN "high"
            ELSE IF positive /\ num * 100 >= 40 * den * acc.max_score THEN "medium"
            ELSE "low"
    IN  [overall_score |->
             IF positive THEN RoundDiv(num * 100 * 100, den * acc.max_score) ELSE 0,
         suitability |-> suitability,
         killer_questions_answered |-> answered_count,
         killer_questions_total |-> total_questions,
         strengths |-> acc.strengths,
         concerns |->
             IF answered_count < total_questions
             THEN Append(acc.concerns, <<"Answered", answered_count, total_questions>>)
             ELSE acc.concerns,
         recommendation |->
             CASE suitability = "high" ->
                    "Strong candidate. Recommend advancing to technical interview."
               [] suitability = "medium" ->
                    "Potential candidate. Consider for phone screen to clarify concerns."
               [] OTHER -> "Not a strong match for this role at this time."]

\* EvaluationService.evaluate_candidate.  overall_score is kept in
\* hundredths of a percent (round(overall_score, 2) * 100).
evaluate_candidate(killer_questions, killer_answers) ==
    LET answered_count == Cardinality(DOMAIN killer_answers)
        total_questions == Len(killer_questions)
        acc == EvaluateLoop(killer_questions, killer_answers, 1,
                   [total_score |-> [num |-> 0, den |-> 1], max_score |-> 0,
                    strengths |-> <<>>, concerns |-> <<>>])
        num == acc.total_score.num
        den == acc.total_score.den
        \* overall_score = total_score / max_score * 100 = (num * 100) / (den * max_score)
        positive == acc.max_score > 0
        suitability ==
            IF positive /\ num * 100 >= 70 * den * acc.max_score THEN "high"
            ELSE IF positive /\ num * 100 >= 40 * den * acc.max_score THEN "medium"
            ELSE "low"
    IN  [overall_score |->
             IF positive THEN RoundDiv(num * 100 * 100, den * acc.max_score) ELSE 0,
         suitability |-> suitability,
         killer_questions_answered |-> answered_count,
         killer_questions_total |-> total_questions,
         strengths |-> acc.strengths,
         concerns |->
             IF answered_count < total_questions
             THEN Append(acc.concerns, <<"Answered", answered_count, total_questions>>)
             ELSE acc.concerns,
         recommendation |->
             CASE suitability = "high" ->
                    "Strong candidate. Recommend advancing to technical interview."
               [] suitability = "medium" ->
                    "Potential candidate. Consider for phone screen to clarify concerns."
               [] OTHER -> "Not a strong match for this role at this time."]

----------------------------------------------------------------------------
(* The session state and the graph nodes *)

VARIABLES
    state,              \* the AgentState of the session
    self_questions,     \* RecruiterAgent.killer_questions (loaded in __init__)
    pc,                 \* node the graph run executes next, or where the caller is
    path,               \* nodes executed so far by the current graph run
    pre,                \* the AgentState handed to the current call (in the two-run and
                        \* two-session specifications: the second AgentState)
    calls,              \* number of process_message calls made so far
    step_limit          \* node executions app.invoke allows before it raises

vars == <<state, self_questions, pc, path, pre, calls, step_limit>>

\* Optional values: None is the empty sequence, a value v is <<v>>.
None == <<>>
Some(v) == <<v>>

\* AgentState as constructed for a new conversation (the field defaults).
\* session_id, candidate, company_info, job_offer and metadata are left out:
\* no node or routing function reads them to decide what to do.
AgentState ==
    [current_node |-> "recepcion_mensaje",
     messages |-> <<>>,
     last_message |-> "",
     agent_response |-> "",
     intent |-> "None",
     conversation_stage |-> "greeting",
     killer_questions |-> <<>>,
     killer_questions_asked |-> <<>>,
     killer_answers |-> EmptyDict,
     evaluation |-> None,
     conversation_ended |-> FALSE,
     needs_human_intervention |-> FALSE]

\* ConversationMessage(sender=..., content=...)
ConversationMessage(sender, content) == [sender |-> sender, content |-> content]

\* state.messages.append(ConversationMessage(sender="agent", content=response))
\* together with state.agent_response = response.  The generated text is
\* opaque; it is written as the name of the LLMService method that made it.
Respond(s, response) ==
    [s EXCEPT !.agent_response = response,
              !.messages = Append(@, ConversationMessage("agent", response))]

\* LLMService.generate_evaluation_summary: which closing text is produced.
generate_evaluation_summary(s) ==
    IF s.evaluation = None THEN "closing_neutral"
    ELSE CASE s.evaluation[1].suitability = "high" -> "closing_high"
           [] s.evaluation[1].suitability = "medium" -> "closing_medium"
           [] OTHER -> "closing_low"

\* [q for q in state.killer_questions if q.question_id not in state.killer_questions_asked]
RECURSIVE NotAsked(_, _, _)
NotAsked(killer_questions, asked, i) ==
    IF i > Len(killer_questions) THEN <<>>
    ELSE (IF \E j \in DOMAIN asked : asked[j] = killer_questions[i].question_id
          THEN <<>> ELSE <<killer_questions[i]>>)
         \o NotAsked(killer_questions, asked, i + 1)

\* x in list
InList(x, list) == \E j \in DOMAIN list : list[j] = x

\* _receive_message_node with a slip: the flags of the session are reset
\* whenever a message is received.
_receive_message_node_ResetsEnded(s, questions) ==
    LET s1 == IF s.killer_questions = <<>>
              THEN [s EXCEPT !.killer_questions = questions]
              ELSE s
        s2 == IF s1.conversation_stage = "greeting" /\ Len(s1.messages) = 0
              THEN Respond([s1 EXCEPT !.conversation_stage = "information_gathering"],
                           "generate_greeting")
              ELSE s1
    IN  [s2 EXCEPT !.current_node = "recepcion_mensaje", !.conversation_ended = FALSE]

\* RecruiterAgent._receive_message_node (questions is self.killer_questions)
_receive_message_node(s, questions) ==
    LET s1 == IF s.killer_questions = <<>>
              THEN [s EXCEPT !.killer_questions = questions]
              ELSE s
        s2 == IF s1.conversation_stage = "greeting" /\ Len(s1.messages) = 0
              THEN Respond([s1 EXCEPT !.conversation_stage = "information_gathering"],
                           "generate_greeting")
              ELSE s1
    IN  [s2 EXCEPT !.current_node = "recepcion_mensaje"]

\* _analyze_intent_node with a slip: the text classified is the last entry
\* of the history, which after a loop back is the agent's own reply.
_analyze_intent_node_ClassifiesLastEntry(s) ==
    [s EXCEPT !.intent = classify_intent(IF s.messages = <<>> THEN s.last_message
                                         ELSE s.messages[Len(s.messages)].content),
              !.current_node = "analisis_intencion"]

\* RecruiterAgent._analyze_intent_node
_analyze_intent_node(s) ==
    [s EXCEPT !.intent = classify_intent(s.last_message),
              !.current_node = "analisis_intencion"]

\* RecruiterAgent._gather_data_node
_gather_data_node(s) ==
    [Respond(s, "generate_response") EXCEPT !.current_node = "obtencion_datos"]

\* _killer_questions_node with a slip: the selected question is not
\* appended to killer_questions_asked.
_killer_questions_node_NotMarked(s) ==
    LET unanswered_questions == NotAsked(s.killer_questions, s.killer_questions_asked, 1)
        s1 == IF unanswered_questions # <<>>
              THEN Respond([s EXCEPT !.conversation_stage = "killer_questions"],
                           "generate_killer_question")
              ELSE IF s.killer_questions_asked # <<>>
                   THEN LET last_question_id ==
                                s.killer_questions_asked[Len(s.killer_questions_asked)]
                        IN  [s EXCEPT !.killer_answers =
                                          DictSet(@, last_question_id, s.last_message)]
                   ELSE s
    IN  [s1 EXCEPT !.current_node = "killer_questions"]

\* _killer_questions_node with a slip: the next question is taken from
\* state.killer_questions instead of from unanswered_questions.
_killer_questions_node_AsksFirst(s) ==
    LET unanswered_questions == NotAsked(s.killer_questions, s.killer_questions_asked, 1)
        s1 == IF unanswered_questions # <<>>
              THEN LET next_question == s.killer_questions[1]
                   IN  Respond(
                         [s EXCEPT
                            !.killer_questions_asked = Append(@, next_question.question_id),
                            !.conversation_stage = "killer_questions"],
                         "generate_killer_question")
              ELSE IF s.killer_questions_asked # <<>>
                   THEN LET last_question_id ==
                                s.killer_questions_asked[Len(s.killer_questions_asked)]
                        IN  [s EXCEPT !.killer_answers =
                                          DictSet(@, last_question_id, s.last_message)]
                   ELSE s
    IN  [s1 EXCEPT !.current_node = "killer_questions"]

\* _killer_questions_node with a slip: the last of the unasked questions is
\* selected instead of the first.
_killer_questions_node_AsksLast(s) ==
    LET unanswered_questions == NotAsked(s.killer_questions, s.killer_questions_asked, 1)
        s1 == IF unanswered_questions # <<>>
              THEN LET next_question == unanswered_questions[Len(unanswered_questions)]
                   IN  Respond(
                         [s EXCEPT
                            !.killer_questions_asked = Append(@, next_question.question_id),
                            !.conversation_stage = "killer_questions"],
                         "generate_killer_question")
              ELSE IF s.killer_questions_asked # <<>>
                   THEN LET last_question_id ==
                                s.killer_questions_asked[Len(s.killer_questions_asked)]
                        IN  [s EXCEPT !.killer_answers =
                                          DictSet(@, last_question_id, s.last_message)]
                   ELSE s
    IN  [s1 EXCEPT !.current_node = "killer_questions"]

\* RecruiterAgent._killer_questions_node
_killer_questions_node(s) ==
    LET unanswered_questions == NotAsked(s.killer_questions, s.killer_questions_asked, 1)
        s1 == IF unanswered_questions # <<>>
              THEN LET next_question == unanswered_questions[1]
                   IN  Respond(
                         [s EXCEPT
                            !.killer_questions_asked = Append(@, next_question.question_id),
                            !.conversation_stage = "killer_questions"],
                         "generate_killer_question")
              ELSE IF s.killer_questions_asked # <<>>
                   THEN LET last_question_id ==
                                s.killer_questions_asked[Len(s.killer_questions_asked)]
                        IN  [s EXCEPT !.killer_answers =
                                          DictSet(@, last_question_id, s.last_message)]
                   ELSE s
    IN  [s1 EXCEPT !.current_node = "killer_questions"]

\* RecruiterAgent._company_response_node
_company_response_node(s) ==
    LET response ==
            IF s.intent \in {"ask_company", "ask_team"} THEN "generate_company_response"
            ELSE IF s.intent \in {"ask_job", "ask_location"} THEN "generate_job_response"
            ELSE "generate_response"
    IN  [Respond([s EXCEPT !.conversation_stage = "company_questions"], response)
            EXCEPT !.current_node = "respuestas_compania"]

\* _final_evaluation_node with a slip: the last answer is not stored before
\* the evaluation.
_final_evaluation_node_NoStore(s) ==
    [s EXCEPT
       !.evaluation = Some(evaluate_candidate(s.killer_questions, s.killer_answers)),
       !.conversation_stage = "evaluation",
       !.current_node = "evaluacion_final"]

\* RecruiterAgent._final_evaluation_node
_final_evaluation_node(s) ==
    LET s1 == IF s.conversation_stage = "killer_questions" /\ s.killer_questions_asked # <<>>
              THEN LET last_question_id ==
                           s.killer_questions_asked[Len(s.killer_questions_asked)]
                   IN  IF last_question_id \notin DOMAIN s.killer_answers
                       THEN [s EXCEPT !.killer_answers =
                                         DictSet(@, last_question_id, s.last_message)]
                       ELSE s
              ELSE s
    IN  [s1 EXCEPT
           !.evaluation = Some(evaluate_candidate(s1.killer_questions, s1.killer_answers)),
           !.conversation_stage = "evaluation",
           !.current_node = "evaluacion_final"]

\* _finalize_chat_node with a slip: the stage is left as it is.
_finalize_chat_node_KeepsStage(s) ==
    [Respond([s EXCEPT !.conversation_ended = TRUE], generate_evaluation_summary(s))
        EXCEPT !.current_node = "finalizar_chat"]

\* RecruiterAgent._finalize_chat_node
_finalize_chat_node(s) ==
    [Respond([s EXCEPT !.conversation_ended = TRUE, !.conversation_stage = "closing"],
             generate_evaluation_summary(s))
        EXCEPT !.current_node = "finalizar_chat"]

----------------------------------------------------------------------------
(* Routing functions and the graph *)

\* _route_after_reception with a slip: conversation_ended is not checked.
_route_after_reception_IgnoresEnded(s) ==
    IF s.conversation_stage = "information_gathering" /\ Len(s.messages) = 1
    THEN "finalizar"
    ELSE "analisis_intencion"

\* _route_after_reception with a slip: the run does not stop after the
\* greeting.
_route_after_reception_NoGreetingWait(s) ==
    IF s.conversation_ended THEN "finalizar" ELSE "analisis_intencion"

\* RecruiterAgent._route_after_reception
_route_after_reception(s) ==
    IF s.conversation_ended THEN "finalizar"
    ELSE IF s.conversation_stage = "information_gathering" /\ Len(s.messages) = 1
         THEN "finalizar"
         ELSE "analisis_intencion"

\* _route_after_intent with a slip: the answer is stored without checking
\* that the question has no answer yet.
_route_after_intent_Overwrites(s) ==
    IF s.intent = "end_conversation"
    THEN [state |-> s,
          route |-> IF DOMAIN s.killer_answers # {} THEN "evaluacion_final" ELSE "finalizar"]
    ELSE IF s.conversation_stage = "killer_questions"
    THEN LET s1 == IF s.killer_questions_asked # <<>> /\ s.last_message # ""
                   THEN LET last_q_id ==
                                s.killer_questions_asked[Len(s.killer_questions_asked)]
                        IN  [s EXCEPT !.killer_answers =
                                         DictSet(@, last_q_id, s.last_message)]
                   ELSE s
             remaining == NotAsked(s1.killer_questions, s1.killer_questions_asked, 1)
         IN  [state |-> s1,
              route |-> IF remaining # <<>> THEN "killer_questions" ELSE "evaluacion_final"]
    ELSE IF s.intent \in {"ask_company", "ask_job", "ask_team", "ask_location"}
    THEN [state |-> s, route |-> "respuestas_compania"]
    ELSE IF s.intent = "provide_info"
    THEN [state |-> s, route |-> "obtencion_datos"]
    ELSE IF Len(s.messages) >= 4 /\ s.killer_questions_asked = <<>>
    THEN [state |-> s, route |-> "killer_questions"]
    ELSE [state |-> s, route |-> "obtencion_datos"]

\* _route_after_intent with a slip: end_conversation always goes through
\* the evaluation, whether or not an answer exists.
_route_after_intent_AlwaysEvaluates(s) ==
    IF s.intent = "end_conversation"
    THEN [state |-> s,
          route |-> "evaluacion_final"]
    ELSE IF s.conversation_stage = "killer_questions"
    THEN LET s1 == IF s.killer_questions_asked # <<>> /\ s.last_message # ""
                   THEN LET last_q_id ==
                                s.killer_questions_asked[Len(s.killer_questions_asked)]
                        IN  IF last_q_id \notin DOMAIN s.killer_answers
                            THEN [s EXCEPT !.killer_answers =
                                              DictSet(@, last_q_id, s.last_message)]
                            ELSE s
                   ELSE s
             remaining == NotAsked(s1.killer_questions, s1.killer_questions_asked, 1)
         IN  [state |-> s1,
              route |-> IF remaining # <<>> THEN "killer_questions" ELSE "evaluacion_final"]
    ELSE IF s.intent \in {"ask_company", "ask_job", "ask_team", "ask_location"}
    THEN [state |-> s, route |-> "respuestas_compania"]
    ELSE IF s.intent = "provide_info"
    THEN [state |-> s, route |-> "obtencion_datos"]
    ELSE IF Len(s.messages) >= 4 /\ s.killer_questions_asked = <<>>
    THEN [state |-> s, route |-> "killer_questions"]
    ELSE [state |-> s, route |-> "obtencion_datos"]

\* _route_after_intent with a slip: the first killer question is due only
\* after more than four messages.
_route_after_intent_LateThreshold(s) ==
    IF s.intent = "end_conversation"
    THEN [state |-> s,
          route |-> IF DOMAIN s.killer_answers # {} THEN "evaluacion_final" ELSE "finalizar"]
    ELSE IF s.conversation_stage = "killer_questions"
    THEN LET s1 == IF s.killer_questions_asked # <<>> /\ s.last_message # ""
                   THEN LET last_q_id ==
                                s.killer_questions_asked[Len(s.killer_questions_asked)]
                        IN  IF last_q_id \notin DOMAIN s.killer_answers
                            THEN [s EXCEPT !.killer_answers =
                                              DictSet(@, last_q_id, s.last_message)]
                            ELSE s
                   ELSE s
             remaining == NotAsked(s1.killer_questions, s1.killer_questions_asked, 1)
         IN  [state |-> s1,
              route |-> IF remaining # <<>> THEN "killer_questions" ELSE "evaluacion_final"]
    ELSE IF s.intent \in {"ask_company", "ask_job", "ask_team", "ask_location"}
    THEN [state |-> s, route |-> "respuestas_compania"]
    ELSE IF s.intent = "provide_info"
    THEN [state |-> s, route |-> "obtencion_datos"]
    ELSE IF Len(s.messages) > 4 /\ s.killer_questions_asked = <<>>
    THEN [state |-> s, route |-> "killer_questions"]
    ELSE [state |-> s, route |-> "obtencion_datos"]

\* _route_after_intent with a slip: the answer is stored under the id of the
\* first question not asked yet, when there is one.
_route_after_intent_AnswersNext(s) ==
    IF s.intent = "end_conversation"
    THEN [state |-> s,
          route |-> IF DOMAIN s.killer_answers # {} THEN "evaluacion_final" ELSE "finalizar"]
    ELSE IF s.conversation_stage = "killer_questions"
    THEN LET unasked == NotAsked(s.killer_questions, s.killer_questions_asked, 1)
             s1 == IF s.killer_questions_asked # <<>> /\ s.last_message # ""
                   THEN LET last_q_id ==
                                IF unasked # <<>> THEN unasked[1].question_id
                                ELSE s.killer_questions_asked[Len(s.killer_questions_asked)]
                        IN  IF last_q_id \notin DOMAIN s.killer_answers
                            THEN [s EXCEPT !.killer_answers =
                                              DictSet(@, last_q_id, s.last_message)]
                            ELSE s
                   ELSE s
             remaining == NotAsked(s1.killer_questions, s1.killer_questions_asked, 1)
         IN  [state |-> s1,
              route |-> IF remaining # <<>> THEN "killer_questions" ELSE "evaluacion_final"]
    ELSE IF s.intent \in {"ask_company", "ask_job", "ask_team", "ask_location"}
    THEN [state |-> s, route |-> "respuestas_compania"]
    ELSE IF s.intent = "provide_info"
    THEN [state |-> s, route |-> "obtencion_datos"]
    ELSE IF Len(s.messages) >= 4 /\ s.killer_questions_asked = <<>>
    THEN [state |-> s, route |-> "killer_questions"]
    ELSE [state |-> s, route |-> "obtencion_datos"]

\* RecruiterAgent._route_after_intent.  The function stores the answer in
\* the state it is given, so it yields the state as well as the route.
_route_after_intent(s) ==
    IF s.intent = "end_conversation"
    THEN [state |-> s,
          route |-> IF DOMAIN s.killer_answers # {} THEN "evaluacion_final" ELSE "finalizar"]
    ELSE IF s.conversation_stage = "killer_questions"
    THEN LET s1 == IF s.killer_questions_asked # <<>> /\ s.last_message # ""
                   THEN LET last_q_id ==
                                s.killer_questions_asked[Len(s.killer_questions_asked)]
                        IN  IF last_q_id \notin DOMAIN s.killer_answers
                            THEN [s EXCEPT !.killer_answers =
                                              DictSet(@, last_q_id, s.last_message)]
                            ELSE s
                   ELSE s
             remaining == NotAsked(s1.killer_questions, s1.killer_questions_asked, 1)
         IN  [state |-> s1,
              route |-> IF remaining # <<>> THEN "killer_questions" ELSE "evaluacion_final"]
    ELSE IF s.intent \in {"ask_company", "ask_job", "ask_team", "ask_location"}
    THEN [state |-> s, route |-> "respuestas_compania"]
    ELSE IF s.intent = "provide_info"
    THEN [state |-> s, route |-> "obtencion_datos"]
    ELSE IF Len(s.messages) >= 4 /\ s.killer_questions_asked = <<>>
    THEN [state |-> s, route |-> "killer_questions"]
    ELSE [state |-> s, route |-> "obtencion_datos"]

\* _route_after_killer_question with a slip: a job without questions is
\* not taken as completely asked.
_route_after_killer_question_NeedsAQuestion(s) ==
    LET all_asked == /\ s.killer_questions # <<>>
                     /\ \A i \in DOMAIN s.killer_questions :
                           InList(s.killer_questions[i].question_id, s.killer_questions_asked)
    IN  IF all_asked THEN "evaluate" ELSE "continue_questions"

\* RecruiterAgent._route_after_killer_question
_route_after_killer_question(s) ==
    LET all_asked == \A i \in DOMAIN s.killer_questions :
                        InList(s.killer_questions[i].question_id, s.killer_questions_asked)
    IN  IF all_asked THEN "evaluate" ELSE "continue_questions"

\* The nodes added in RecruiterAgent._build_graph.
Nodes ==
    {"recepcion_mensaje", "analisis_intencion", "obtencion_datos", "killer_questions",
     "respuestas_compania", "evaluacion_final", "finalizar_chat"}

\* _build_graph with a slip: the edge leaving obtencion_datos leads to END.
_build_graph_GatherEnds(node, route) ==
    CASE node = "recepcion_mensaje" ->
           (IF route = "analisis_intencion" THEN "analisis_intencion" ELSE "END")
      [] node = "analisis_intencion" ->
           (IF route = "finalizar" THEN "finalizar_chat" ELSE route)
      [] node = "obtencion_datos" -> "END"
      [] node = "respuestas_compania" -> "analisis_intencion"
      [] node = "killer_questions" ->
           (IF route = "continue_questions" THEN "analisis_intencion" ELSE "evaluacion_final")
      [] node = "evaluacion_final" -> "finalizar_chat"
      [] node = "finalizar_chat" -> "END"

\* The edges added in RecruiterAgent._build_graph: the node (or END) that
\* follows node `node` when its routing function returned `route`; nodes
\* with a plain edge ignore route.
_build_graph(node, route) ==
    CASE node = "recepcion_mensaje" ->
           (IF route = "analisis_intencion" THEN "analisis_intencion" ELSE "END")
      [] node = "analisis_intencion" ->
           (IF route = "finalizar" THEN "finalizar_chat" ELSE route)
      [] node = "obtencion_datos" -> "analisis_intencion"
      [] node = "respuestas_compania" -> "analisis_intencion"
      [] node = "killer_questions" ->
           (IF route = "continue_questions" THEN "analisis_intencion" ELSE "evaluacion_final")
      [] node = "evaluacion_final" -> "finalizar_chat"
      [] node = "finalizar_chat" -> "END"

----------------------------------------------------------------------------
(* Actions *)

TypeOK ==
    /\ pc \in Nodes \cup {"new", "returned", "raised", "END"}
    /\ calls \in 0..MaxTurns
    /\ step_limit \in {RecursionLimit, RecursionLimit + 1}
    /\ Len(path) <= step_limit
    /\ state.conversation_ended \in BOOLEAN
    /\ state.last_message \in Texts

Init ==
    /\ \E n \in 0..MaxQuestions : self_questions = get_killer_questions(n)
    /\ state = AgentState
    /\ pc = "new"
    /\ path = <<>>
    /\ pre = AgentState
    /\ calls = 0
    \* Whether the library's own start step counts towards the limit differs
    \* between library versions and is not fixed by the source: a run gets
    \* RecursionLimit node executions or one more.
    /\ step_limit \in {RecursionLimit, RecursionLimit + 1}

\* src/example_usage.py step 1: process_message is called on the fresh
\* state; app.invoke starts at the entry point.
StartConversation ==
    /\ pc = "new"
    /\ calls < MaxTurns
    /\ pc' = "recepcion_mensaje"
    /\ path' = <<>>
    /\ pre' = state
    /\ calls' = calls + 1
    /\ UNCHANGED <<state, self_questions, step_limit>>

\* src/example_usage.py steps 2..6: the candidate's message is appended,
\* stored in last_message, and process_message is called.
SendMessage(text) ==
    /\ pc \in {"returned", "raised"}
    /\ calls < MaxTurns
    /\ state' = [state EXCEPT
                   !.messages = Append(@, ConversationMessage("candidate", text)),
                   !.last_message = text]
    /\ pc' = "recepcion_mensaje"
    /\ path' = <<>>
    /\ pre' = state'
    /\ calls' = calls + 1
    /\ UNCHANGED <<self_questions, step_limit>>

\* One graph step: node `node` runs and the edge leaving it is followed.
RunNode(node, after) ==
    /\ pc = node
    /\ Len(path) < step_limit
    /\ state' = after.state
    /\ pc' = _build_graph(node, after.route)
    /\ path' = Append(path, node)
    /\ UNCHANGED <<self_questions, pre, calls, step_limit>>

recepcion_mensaje ==
    LET s == _receive_message_node(state, self_questions)
    IN  RunNode("recepcion_mensaje", [state |-> s, route |-> _route_after_reception(s)])

analisis_intencion ==
    RunNode("analisis_intencion", _route_after_intent(_analyze_intent_node(state)))

obtencion_datos ==
    RunNode("obtencion_datos", [state |-> _gather_data_node(state), route |-> "edge"])

killer_questions ==
    LET s == _killer_questions_node(state)
    IN  RunNode("killer_questions",
                [state |-> s, route |-> _route_after_killer_question(s)])

respuestas_compania ==
    RunNode("respuestas_compania",
            [state |-> _company_response_node(state), route |-> "edge"])

evaluacion_final ==
    RunNode("evaluacion_final",
            [state |-> _final_evaluation_node(state), route |-> "edge"])

finalizar_chat ==
    RunNode("finalizar_chat", [state |-> _finalize_chat_node(state), route |-> "edge"])

\* process_message, line 494: the graph run reached END and its result is
\* returned.
ReturnResult ==
    /\ pc = "END"
    /\ pc' = "returned"
    /\ UNCHANGED <<state, self_questions, path, pre, calls, step_limit>>

\* process_message, lines 495-502: app.invoke raised (the run did not reach
\* END within step_limit steps); the handler marks the state and
\* returns it.
HandleException ==
    /\ pc \in Nodes
    /\ Len(path) = step_limit
    /\ state' = [state EXCEPT !.needs_human_intervention = TRUE,
                              !.agent_response = "apology"]
    /\ pc' = "raised"
    /\ UNCHANGED <<self_questions, path, pre, calls, step_limit>>

Next ==
    \/ StartConversation
    \/ \E text \in Texts : SendMessage(text)
    \/ recepcion_mensaje
    \/ analisis_intencion
    \/ obtencion_datos
    \/ killer_questions
    \/ respuestas_compania
    \/ evaluacion_final
    \/ finalizar_chat
    \/ ReturnResult
    \/ HandleException

Spec == Init /\ [][Next]_vars

----------------------------------------------------------------------------
(* evaluate_candidate on its own *)

\* Answers handed to evaluate_candidate: the poor answer of
\* src/test_microservice.py, which matches no keyword; an answer that
\* matches 2 of the 3 ExpKeywords, 2 of the 4 CloudKeywords and 5 of the 7
\* CloudRunKeywords; an answer that matches every keyword.
EvalAnswers ==
    { "I just started learning",
      "5 years of Python, with AWS Lambda and GCP deployments on Kubernetes",
      "I have 5 years of Python experience with AWS Lambda, GCP Cloud Run, Azure and Kubernetes deployments" }

\* KillerQuestion objects handed to evaluate_candidate as the i-th question:
\* expected_keywords may be empty (the field's default), weight is any
\* value of the field's range [0.0, 1.0], here in hundredths.
EvalQuestions(i) ==
    { [question_id |-> i, expected_keywords |-> k, weight |-> w, required |-> r] :
        k \in {<<>>, ExpKeywords, CloudKeywords, CloudRunKeywords},
        w \in {0, 31, 72}, r \in BOOLEAN }

\* A key of killer_answers that is the id of none of the questions.
ForeignId == 0

\* A caller holds a list of questions and a dict of answers to some of
\* them, and is about to call evaluate_candidate.
EvalInit ==
    /\ \E n \in 0..MaxEvalQuestions :
         \E answered \in SUBSET ({ForeignId} \cup 1..n) :
            /\ self_questions \in
                  {qs \in [1..n -> UNION {EvalQuestions(i) : i \in 1..n}] :
                      \A i \in 1..n : qs[i].question_id = i}
            /\ \E answers \in [answered -> EvalAnswers] :
                  /\ ForeignId \in answered => answers[ForeignId] = "I just started learning"
                  /\ state = [AgentState EXCEPT !.killer_questions = self_questions,
                                                !.killer_answers = answers]
    /\ pc = "evaluate_candidate"
    /\ path = <<>>
    /\ pre = state
    /\ calls = 0
    /\ step_limit = RecursionLimit

\* EvaluateCandidate with a slip: the call removes from killer_answers the
\* answers it has read.
EvaluateCandidate_ConsumesAnswers ==
    /\ pc \in {"evaluate_candidate", "evaluated"}
    /\ state' = [state EXCEPT
                   !.evaluation =
                       Some(evaluate_candidate(state.killer_questions, state.killer_answers)),
                   !.killer_answers =
                       [k \in (DOMAIN @) \
                              {state.killer_questions[i].question_id :
                                  i \in DOMAIN state.killer_questions} |-> @[k]]]
    /\ pc' = IF pc = "evaluate_candidate" THEN "evaluated" ELSE "evaluated_again"
    /\ UNCHANGED <<self_questions, path, pre, calls, step_limit>>

\* evaluation_service.evaluate_candidate(killer_questions, killer_answers),
\* called on the same objects a first and a second time.  The function
\* reads its arguments and assigns only local variables, so nothing but the
\* returned result changes.
EvaluateCandidate ==
    /\ pc \in {"evaluate_candidate", "evaluated"}
    /\ state' = [state EXCEPT !.evaluation =
                     Some(evaluate_candidate(state.killer_questions, state.killer_answers))]
    /\ pc' = IF pc = "evaluate_candidate" THEN "evaluated" ELSE "evaluated_again"
    /\ UNCHANGED <<self_questions, path, pre, calls, step_limit>>

EvalNext == EvaluateCandidate

EvalSpec == EvalInit /\ [][EvalNext]_vars

----------------------------------------------------------------------------
(* classify_intent on its own *)

\* Messages handed to classify_intent: those of TestIntentClassificationService
\* in src/test_microservice.py, and messages with keywords of several
\* intents.
ClassifyTexts ==
    { "",
      "Thank you, goodbye!",
      "Can you tell me more about your company culture?",
      "What are the main responsibilities of this role?",
      "I have 5 years of experience with Python and Django",
      "Thanks for telling me about the company",
      "Thanks! What are the company values?",
      "Does the company share the salary for this role?",
      "Yes, absolutely!",
      "Is the team remote?" }

\* A caller holds a state and classifies the messages it receives.
IntentInit ==
    /\ state = AgentState
    /\ self_questions = <<>>
    /\ pc = "classify_intent"
    /\ path = <<>>
    /\ pre = AgentState
    /\ calls = 0
    /\ step_limit = RecursionLimit

\* The caller stores a message in the state and has its intent classified
\* (state.intent = classify_intent(state.last_message)); path keeps the
\* labels returned so far.
ClassifyIntent(message) ==
    /\ pc = "classify_intent"
    /\ calls < MaxClassified
    /\ state' = _analyze_intent_node(
                   [state EXCEPT
                      !.messages = Append(@, ConversationMessage("candidate", message)),
                      !.last_message = message])
    /\ path' = Append(path, state'.intent)
    /\ calls' = calls + 1
    /\ UNCHANGED <<self_questions, pc, pre, step_limit>>

IntentNext == \E message \in ClassifyTexts : ClassifyIntent(message)

IntentSpec == IntentInit /\ [][IntentNext]_vars

\* evaluate_candidate as called by a session and as called on its own.
AllInit == Init \/ EvalInit

AllNext == Next \/ EvalNext

AllSpec == AllInit /\ [][AllNext]_vars

-----------------------------------------------------------------------------
(* Sessions in which the intent classifier can fail *)

\* _analyze_intent_node, line 171: classify_intent raises (last_message was
\* assigned a value without .lower(), or the service is unavailable).  The
\* call precedes every assignment of the node and the node has no handler,
\* so the exception leaves app.invoke with the state as the node received
\* it and is caught by process_message, lines 495-502.  classify_intent
\* depends on last_message only, which no node assigns, so a call that
\* fails does so the first time the node runs.  The failed call is
\* recorded in path.
ClassifierFails ==
    /\ pc = "analisis_intencion"
    /\ path = <<"recepcion_mensaje">>
    /\ state' = [state EXCEPT !.needs_human_intervention = TRUE,
                              !.agent_response = "apology"]
    /\ pc' = "raised"
    /\ path' = Append(path, "ClassifierUnavailable")
    /\ UNCHANGED <<self_questions, pre, calls, step_limit>>

FaultNext == Next \/ ClassifierFails

FaultSpec == Init /\ [][FaultNext]_vars

-----------------------------------------------------------------------------
(* Sessions of an agent constructed for a requested job id *)

\* DataService._load_job_offers: the ids the repository holds.
_job_offers == {"senior_python_dev", "ml_engineer"}

\* DataService._load_killer_questions: senior_python_dev has four
\* questions, ml_engineer three.
_killer_questions_db ==
    [job_id \in _job_offers |->
        IF job_id = "senior_python_dev" THEN get_killer_questions(4)
        ELSE get_killer_questions(3)]

\* DataService.get_job_offer: self._job_offers.get(job_id)
get_job_offer(job_id) ==
    IF job_id \in _job_offers THEN Some(job_id) ELSE None

\* DataService.get_killer_questions: self._killer_questions_db.get(job_id, [])
_killer_questions_db_get(job_id) ==
    IF job_id \in DOMAIN _killer_questions_db THEN _killer_questions_db[job_id]
    ELSE <<>>

\* The job_id arguments RecruiterAgent is constructed with: the two ids of
\* src/services.py, the id of src/main.py, which src/services.py does not
\* hold, and a misspelt one.
RequestedJobIds ==
    {"senior_python_dev", "ml_engineer", "data_scientist", "senior_python_developer"}

\* RecruiterAgent.__init__, lines 40-56: the results of the lookups are
\* stored as they are returned, and the graph is built.
JobInit ==
    /\ \E job_id \in RequestedJobIds : self_questions = _killer_questions_db_get(job_id)
    /\ state = AgentState
    /\ pc = "new"
    /\ path = <<>>
    /\ pre = AgentState
    /\ calls = 0
    /\ step_limit \in {RecursionLimit, RecursionLimit + 1}

JobSpec == JobInit /\ [][Next]_vars

-----------------------------------------------------------------------------
(* Constructing questions *)

\* The weights handed to the constructor, in hundredths: below, at and
\* above both ends of the range.
RequestedWeights == {-50, -1, 0, 1, 50, 100, 101, 150}

\* KillerQuestion(question_id=..., expected_keywords=..., weight=...,
\* required=...): the field weight is declared with ge=0.0, le=1.0; a value
\* outside raises a validation error (None) and no object is made.
KillerQuestion_init(question_id, expected_keywords, weight, required) ==
    IF weight >= 0 /\ weight <= 100
    THEN Some([question_id |-> question_id, expected_keywords |-> expected_keywords,
               weight |-> weight, required |-> required])
    ELSE None

QuestionInit ==
    /\ state = AgentState
    /\ self_questions = <<>>
    /\ pc = "KillerQuestion"
    /\ path = <<>>
    /\ pre = AgentState
    /\ calls = 0
    /\ step_limit = RecursionLimit

\* One constructor call; the questions made so far are kept in
\* self_questions, and path records the weight asked for and the outcome.
ConstructQuestion(expected_keywords, weight, required) ==
    /\ pc = "KillerQuestion"
    /\ calls < MaxConstructed
    /\ LET q == KillerQuestion_init(Len(self_questions) + 1, expected_keywords,
                                    weight, required)
       IN  /\ self_questions' = IF q = None THEN self_questions
                                ELSE Append(self_questions, q[1])
           /\ path' = Append(path, [weight |-> weight, made |-> q])
    /\ calls' = calls + 1
    /\ UNCHANGED <<state, pc, pre, step_limit>>

QuestionNext ==
    \E expected_keywords \in {ExpKeywords, CloudKeywords}, weight \in RequestedWeights,
       required \in BOOLEAN :
        ConstructQuestion(expected_keywords, weight, required)

QuestionSpec == QuestionInit /\ [][QuestionNext]_vars

-----------------------------------------------------------------------------
(* Two runs of one session that differ in the generated texts *)

\* Texts the phrasing service may return in place of its usual ones: the
\* empty text and two texts that carry intent keywords.
PhrasingVariants ==
    {"", "Thank you, goodbye!", "Can you tell me more about your company culture?"}

\* The node function of `node` and the routing function on its edge,
\* applied to s (as in the node actions above).
StepOf(node, s, questions) ==
    CASE node = "recepcion_mensaje" ->
           (LET s1 == _receive_message_node(s, questions)
            IN  [state |-> s1, route |-> _route_after_reception(s1)])
      [] node = "analisis_intencion" -> _route_after_intent(_analyze_intent_node(s))
      [] node = "obtencion_datos" -> [state |-> _gather_data_node(s), route |-> "edge"]
      [] node = "killer_questions" ->
           (LET s1 == _killer_questions_node(s)
            IN  [state |-> s1, route |-> _route_after_killer_question(s1)])
      [] node = "respuestas_compania" ->
           [state |-> _company_response_node(s), route |-> "edge"]
      [] node = "evaluacion_final" ->
           [state |-> _final_evaluation_node(s), route |-> "edge"]
      [] node = "finalizar_chat" -> [state |-> _finalize_chat_node(s), route |-> "edge"]

\* The state `after` a node that ran on `before`, when the LLMService call
\* of the node (if it made one) returned `text`: the text is what the node
\* stores in agent_response and appends to messages.
Phrased(before, after, text) ==
    IF Len(after.messages) > Len(before.messages)
    THEN [after EXCEPT !.agent_response = text,
                       !.messages[Len(after.messages)].content = text]
    ELSE after

\* `pre` is the session with the usual texts, `state` the same session, on
\* the same inbound messages, with a phrasing service that returns `text`:
\* one text for the whole session, chosen when the greeting is generated.
\* Both runs take the step of node pc; pc becomes "diverged" when they
\* would go on to different nodes.
PhrasedNode(node, text) ==
    /\ pc = node
    /\ Len(path) < step_limit
    /\ state.messages # <<>> => text = state.messages[1].content
    /\ LET usual == StepOf(node, pre, self_questions)
           other == StepOf(node, state, self_questions)
       IN  /\ pre' = usual.state
           /\ state' = Phrased(state, other.state, text)
           /\ pc' = IF _build_graph(node, other.route) = _build_graph(node, usual.route)
                    THEN _build_graph(node, usual.route)
                    ELSE "diverged"
    /\ path' = Append(path, node)
    /\ UNCHANGED <<self_questions, calls, step_limit>>

\* The same inbound message is sent to both runs.
PhrasedSend(text) ==
    /\ pc \in {"returned", "raised"}
    /\ calls < MaxTurns
    /\ state' = [state EXCEPT
                   !.messages = Append(@, ConversationMessage("candidate", text)),
                   !.last_message = text]
    /\ pre' = [pre EXCEPT
                 !.messages = Append(@, ConversationMessage("candidate", text)),
                 !.last_message = text]
    /\ pc' = "recepcion_mensaje"
    /\ path' = <<>>
    /\ calls' = calls + 1
    /\ UNCHANGED <<self_questions, step_limit>>

\* process_message, lines 495-502, in both runs.
PhrasedException ==
    /\ pc \in Nodes
    /\ Len(path) = step_limit
    /\ state' = [state EXCEPT !.needs_human_intervention = TRUE,
                              !.agent_response = "apology"]
    /\ pre' = [pre EXCEPT !.needs_human_intervention = TRUE,
                          !.agent_response = "apology"]
    /\ pc' = "raised"
    /\ UNCHANGED <<self_questions, path, calls, step_limit>>

PhrasingNext ==
    \/ StartConversation
    \/ \E text \in Texts : PhrasedSend(text)
    \/ \E node \in Nodes, text \in PhrasingVariants : PhrasedNode(node, text)
    \/ ReturnResult
    \/ PhrasedException

PhrasingSpec == Init /\ [][PhrasingNext]_vars

-----------------------------------------------------------------------------
(* Two sessions handled by one RecruiterAgent *)

\* app.invoke: the graph run from `node`, n node executions done, until END
\* or until the limit aborts it; [state, raised].
RECURSIVE Invoke(_, _, _, _, _)
Invoke(s, node, n, questions, limit) ==
    IF node = "END" THEN [state |-> s, raised |-> FALSE]
    ELSE IF n = limit THEN [state |-> s, raised |-> TRUE]
    ELSE LET after == StepOf(node, s, questions)
         IN  Invoke(after.state, _build_graph(node, after.route), n + 1, questions, limit)

\* RecruiterAgent.process_message as one call
process_message(s, questions, limit) ==
    LET result == Invoke(s, "recepcion_mensaje", 0, questions, limit)
    IN  IF result.raised
        THEN [result.state EXCEPT !.needs_human_intervention = TRUE,
                                  !.agent_response = "apology"]
        ELSE result.state

\* The inbound texts of the two sessions.
SessionTexts ==
    {"Hello", "Thank you, goodbye!", "I have 5 years of Python experience"}

\* One agent (self_questions is its killer_questions list, which
\* _receive_message_node assigns to every session's state as the same
\* object) and two fresh sessions: `state` is session 1, `pre` session 2.
SessionsInit ==
    /\ \E job_id \in RequestedJobIds : self_questions = _killer_questions_db_get(job_id)
    /\ state = AgentState
    /\ pre = AgentState
    /\ pc = "sessions"
    /\ path = <<>>
    /\ calls = 0
    /\ step_limit = RecursionLimit

\* SessionTurn with a slip: the node removes the questions it asked from
\* the list it was given, which is the agent's own list.
SessionTurn_ConsumesSharedQuestions(sid, text) ==
    /\ pc = "sessions"
    /\ calls < MaxTurns
    /\ LET s == IF sid = 1 THEN state ELSE pre
           s1 == IF s.messages = <<>> THEN s
                 ELSE [s EXCEPT
                         !.messages = Append(@, ConversationMessage("candidate", text)),
                         !.last_message = text]
           after == process_message(s1, self_questions, step_limit)
       IN  /\ IF sid = 1 THEN state' = after /\ pre' = pre
                         ELSE pre' = after /\ state' = state
           /\ self_questions' = NotAsked(self_questions, after.killer_questions_asked, 1)
    /\ path' = Append(path, sid)
    /\ calls' = calls + 1
    /\ UNCHANGED <<pc, step_limit>>

\* One turn of session sid: the first call on a fresh state, or a call with
\* the inbound message appended (src/example_usage.py).  The call gets the
\* agent and that session's state; no node assigns an attribute of the
\* agent or of its services, or changes the list of questions.
SessionTurn(sid, text) ==
    /\ pc = "sessions"
    /\ calls < MaxTurns
    /\ LET s == IF sid = 1 THEN state ELSE pre
           s1 == IF s.messages = <<>> THEN s
                 ELSE [s EXCEPT
                         !.messages = Append(@, ConversationMessage("candidate", text)),
                         !.last_message = text]
           after == process_message(s1, self_questions, step_limit)
       IN  /\ IF sid = 1 THEN state' = after /\ pre' = pre
                         ELSE pre' = after /\ state' = state
           /\ self_questions' = self_questions
    /\ path' = Append(path, sid)
    /\ calls' = calls + 1
    /\ UNCHANGED <<pc, step_limit>>

SessionsNext == \E sid \in {1, 2}, text \in SessionTexts : SessionTurn(sid, text)

SessionsSpec == SessionsInit /\ [][SessionsNext]_vars

-----------------------------------------------------------------------------
(* The graph of src/main.py *)

\* The intents LLMService.analyze_intention of src/main.py names in its
\* prompt ("general" is also the fallback of analisis_intencion), and the
\* verdicts of evaluate_killer_question_response.
MainIntents == {"saludo", "solicitar_informacion", "aplicar", "responder_pregunta", "general"}
MainVerdicts == {"positiva", "neutra", "negativa"}

\* DataService.get_killer_questions of src/main.py for a role with n
\* questions (both roles of the file have four); peso in hundredths.
main_get_killer_questions(n) ==
    [i \in 1..n |-> [peso |-> IF i = 1 THEN 30 ELSE IF i \in {2, 3} THEN 25 ELSE 20,
                     respuesta_candidato |-> None,
                     evaluacion |-> "None"]]

\* The initial_state of receive_message / simulate_conversation.
ConversationState ==
    [intencion |-> "None",
     job_offer |-> FALSE,
     killer_questions |-> <<>>,
     pregunta_actual_indice |-> 0,
     esperando_respuesta_killer |-> FALSE,
     respuesta_agente |-> "",
     puntuacion_idoneidad |-> "None",
     estado_actual |-> "recepcion_mensaje",
     finalizado |-> FALSE]

\* recepcion_mensaje of src/main.py
main_recepcion_mensaje(s) == [s EXCEPT !.estado_actual = "analisis_intencion"]

\* analisis_intencion of src/main.py; intencion is what analyze_intention
\* returned, or "general" when it raised.
main_analisis_intencion(s, intencion) ==
    [s EXCEPT !.intencion = intencion, !.estado_actual = "obtencion_datos"]

\* obtencion_datos of src/main.py: the offer of the role of interest is
\* loaded if none is (both role keys are in the repository), then the
\* next node is chosen.
main_obtencion_datos(s) ==
    LET s1 == IF ~s.job_offer THEN [s EXCEPT !.job_offer = TRUE] ELSE s
    IN  [s1 EXCEPT !.estado_actual =
           IF s1.intencion \in {"aplicar", "responder_pregunta"} /\ s1.job_offer
           THEN "killer_questions" ELSE "respuestas_compania"]

\* killer_questions of src/main.py with a slip: the index is not advanced
\* after an answer was evaluated.
main_killer_questions_NoAdvance(s, questions, verdict) ==
    LET evaluated == /\ s.esperando_respuesta_killer
                     /\ s.pregunta_actual_indice < Len(s.killer_questions)
                     /\ s.job_offer
        list1 == IF evaluated
                 THEN [s.killer_questions EXCEPT
                         ![s.pregunta_actual_indice + 1].respuesta_candidato =
                             Some("mensaje_entrante"),
                         ![s.pregunta_actual_indice + 1].evaluacion = verdict]
                 ELSE s.killer_questions
        indice1 == s.pregunta_actual_indice
        list2 == IF list1 = <<>> THEN questions ELSE list1
        indice2 == IF list1 = <<>> THEN 0 ELSE indice1
    IN  IF indice2 < Len(list2)
        THEN [s EXCEPT !.killer_questions = list2,
                       !.respuesta_agente = "pregunta",
                       !.pregunta_actual_indice = indice2,
                       !.esperando_respuesta_killer = TRUE,
                       !.estado_actual = "killer_questions"]
        ELSE [s EXCEPT !.killer_questions = list2,
                       !.esperando_respuesta_killer = FALSE,
                       !.estado_actual = "evaluacion_final"]

\* killer_questions of src/main.py; the index is 0-based in the source and
\* the list 1-based here.  verdict is what
\* evaluate_killer_question_response returned for mensaje_entrante.
main_killer_questions(s, questions, verdict) ==
    LET evaluated == /\ s.esperando_respuesta_killer
                     /\ s.pregunta_actual_indice < Len(s.killer_questions)
                     /\ s.job_offer
        list1 == IF evaluated
                 THEN [s.killer_questions EXCEPT
                         ![s.pregunta_actual_indice + 1].respuesta_candidato =
                             Some("mensaje_entrante"),
                         ![s.pregunta_actual_indice + 1].evaluacion = verdict]
                 ELSE s.killer_questions
        indice1 == IF evaluated THEN s.pregunta_actual_indice + 1
                   ELSE s.pregunta_actual_indice
        list2 == IF list1 = <<>> THEN questions ELSE list1
        indice2 == IF list1 = <<>> THEN 0 ELSE indice1
    IN  IF indice2 < Len(list2)
        THEN [s EXCEPT !.killer_questions = list2,
                       !.respuesta_agente = "pregunta",
                       !.pregunta_actual_indice = indice2,
                       !.esperando_respuesta_killer = TRUE,
                       !.estado_actual = "killer_questions"]
        ELSE [s EXCEPT !.killer_questions = list2,
                       !.esperando_respuesta_killer = FALSE,
                       !.estado_actual = "evaluacion_final"]

\* respuestas_compañia of src/main.py
main_respuestas_compania(s) ==
    [s EXCEPT !.respuesta_agente = "generate_response",
              !.estado_actual = IF s.intencion = "aplicar" /\ s.job_offer
                                THEN "killer_questions" ELSE "finalizar_chat"]

RECURSIVE main_puntuacion_total(_, _)
\* Sum over the first n questions of puntuacion_pregunta * peso, in
\* thousandths (1.0, 0.5 and 0.2 are 10, 5 and 2 tenths).
main_puntuacion_total(list, n) ==
    IF n = 0 THEN 0
    ELSE (CASE list[n].evaluacion = "positiva" -> 10
            [] list[n].evaluacion = "neutra" -> 5
            [] OTHER -> 2) * list[n].peso + main_puntuacion_total(list, n - 1)

RECURSIVE main_peso_total(_, _)
main_peso_total(list, n) ==
    IF n = 0 THEN 0 ELSE list[n].peso + main_peso_total(list, n - 1)

\* evaluacion_final of src/main.py: puntuacion_normalizada >= 0.7 is
\* puntuacion_total >= 7 * peso_total in these units; without weight the
\* score is 0.5.
main_evaluacion_final(s) ==
    LET total == main_puntuacion_total(s.killer_questions, Len(s.killer_questions))
        peso == main_peso_total(s.killer_questions, Len(s.killer_questions))
        puntuacion_idoneidad ==
            IF peso = 0 THEN "media"
            ELSE IF total >= 7 * peso THEN "alta"
            ELSE IF total >= 4 * peso THEN "media"
            ELSE "baja"
    IN  [s EXCEPT !.puntuacion_idoneidad = puntuacion_idoneidad,
                  !.respuesta_agente = "mensaje_final",
                  !.estado_actual = "finalizar_chat"]

\* finalizar_chat of src/main.py
main_finalizar_chat(s) == [s EXCEPT !.finalizado = TRUE, !.estado_actual = "finalizado"]

\* create_recruiter_graph: the node (or END) that follows `node` when it
\* returned state s (edges, route_after_data, route_after_killer,
\* route_after_responses).
create_recruiter_graph(node, s) ==
    CASE node = "recepcion_mensaje" -> "analisis_intencion"
      [] node = "analisis_intencion" -> "obtencion_datos"
      [] node = "obtencion_datos" ->
           (IF s.estado_actual = "killer_questions" THEN "killer_questions"
            ELSE "respuestas_compania")
      [] node = "killer_questions" ->
           (IF s.estado_actual = "killer_questions" THEN "killer_questions"
            ELSE IF s.estado_actual = "evaluacion_final" THEN "evaluacion_final"
            ELSE "finalizar_chat")
      [] node = "respuestas_compania" ->
           (IF s.estado_actual = "killer_questions" THEN "killer_questions"
            ELSE "finalizar_chat")
      [] node = "evaluacion_final" -> "finalizar_chat"
      [] node = "finalizar_chat" -> "END"

MainInit ==
    /\ \E n \in 0..MaxMainQuestions : self_questions = main_get_killer_questions(n)
    /\ state = ConversationState
    /\ pre = ConversationState
    /\ pc = "new"
    /\ path = <<>>
    /\ calls = 0
    /\ step_limit = RecursionLimit

\* receive_message: every request is run on a fresh initial_state.
MainWebhook ==
    /\ pc \in {"new", "returned"}
    /\ calls < MaxTurns
    /\ state' = ConversationState
    /\ pre' = state'
    /\ pc' = "recepcion_mensaje"
    /\ path' = <<>>
    /\ calls' = calls + 1
    /\ UNCHANGED <<self_questions, step_limit>>

\* simulate_conversation: the state the last invocation returned is
\* invoked again with the next message and finalizado reset.
MainContinue ==
    /\ pc = "returned"
    /\ calls < MaxTurns
    /\ state' = [state EXCEPT !.finalizado = FALSE]
    /\ pre' = state'
    /\ pc' = "recepcion_mensaje"
    /\ path' = <<>>
    /\ calls' = calls + 1
    /\ UNCHANGED <<self_questions, step_limit>>

\* One graph step of src/main.py: the node at pc runs and its edge is
\* followed.
MainNode(intencion, verdict) ==
    /\ pc \in Nodes
    /\ Len(path) < step_limit
    /\ LET after ==
             CASE pc = "recepcion_mensaje" -> main_recepcion_mensaje(state)
               [] pc = "analisis_intencion" -> main_analisis_intencion(state, intencion)
               [] pc = "obtencion_datos" -> main_obtencion_datos(state)
               [] pc = "killer_questions" ->
                    main_killer_questions(state, self_questions, verdict)
               [] pc = "respuestas_compania" -> main_respuestas_compania(state)
               [] pc = "evaluacion_final" -> main_evaluacion_final(state)
               [] pc = "finalizar_chat" -> main_finalizar_chat(state)
       IN  /\ state' = after
           /\ pc' = create_recruiter_graph(pc, after)
    /\ path' = Append(path, pc)
    /\ UNCHANGED <<self_questions, pre, calls, step_limit>>

\* graph.invoke returns the final state.
MainReturn ==
    /\ pc = "END"
    /\ pc' = "returned"
    /\ UNCHANGED <<state, self_questions, path, pre, calls, step_limit>>

MainRun ==
    \/ \E intencion \in MainIntents, verdict \in MainVerdicts : MainNode(intencion, verdict)
    \/ MainReturn

MainNext ==
    \/ MainWebhook
    \/ MainContinue
    \/ MainRun

\* An invocation that has started keeps executing: graph.invoke runs the
\* nodes one after the other in the caller's thread.
MainSpec == MainInit /\ [][MainNext]_vars /\ WF_vars(MainRun)

----------------------------------------------------------------------------
(* Properties *)

\* The current process_message call is over (returned or handled a fault).
CallOver == pc \in {"returned", "raised"}

\* The agent messages appended to state.messages since the call started.
AgentMessagesAdded ==
    Cardinality({i \in (Len(pre.messages) + 1)..Len(state.messages) :
                    state.messages[i].sender = "agent"})

\* The question ids in the list asked / not in the list asked.
AskedIds(s) == {s.killer_questions_asked[j] : j \in DOMAIN s.killer_questions_asked}
QuestionIds(s) == {s.killer_questions[i].question_id : i \in DOMAIN s.killer_questions}
UnaskedIds(s) == QuestionIds(s) \ AskedIds(s)

\* The last graph step executed node `node`.
JustRan(node) == path' = Append(path, node)

\* C1: every call of process_message on a session that is not ended appends
\* exactly one agent message to the session's messages.
C1_ExactlyOneOutboundAction ==
    (CallOver /\ calls > 0 /\ ~pre.conversation_ended) => AgentMessagesAdded = 1

\* C2: every graph run reaches END: no run exhausts the step limit of
\* app.invoke while a node is still due.
C2_EveryRunReachesEnd ==
    ~(pc \in Nodes /\ Len(path) = step_limit)

\* NoDuplicates: len(list) == len(set(list)).
NoDuplicates(list) == \A i, j \in DOMAIN list : list[i] = list[j] => i = j

\* C3: every execution of the killer-question node that selects a question
\* strictly shrinks the set of questions not in asked, at most |questions|
\* questions are ever selected, and once none is left unasked the routing
\* leaves the node for evaluacion_final.
C3_KillerStageShrinks ==
    [][ JustRan("killer_questions") =>
          /\ state'.agent_response = "generate_killer_question" =>
                /\ UnaskedIds(state') \subseteq UnaskedIds(state)
                /\ UnaskedIds(state') # UnaskedIds(state)
          /\ Len(state'.killer_questions_asked) <= Len(state'.killer_questions)
          /\ UnaskedIds(state') = {} => pc' = "evaluacion_final"
          /\ UnaskedIds(state') # {} => pc' = "analisis_intencion" ]_vars

\* C3 witness: the node has selected the last of several questions and the
\* run moved on to the evaluation.
C3_Witness ==
    /\ pc = "evaluacion_final"
    /\ path # <<>> /\ path[Len(path)] = "killer_questions"
    /\ state.agent_response = "generate_killer_question"
    /\ Len(state.killer_questions) >= 2
    /\ Len(state.killer_questions_asked) = Len(state.killer_questions)

\* C4: asked never contains the same question id twice.
C4_AskedHasNoDuplicates == NoDuplicates(state.killer_questions_asked)

\* C4 witness: several questions have been asked.
C4_Witness ==
    /\ Len(state.killer_questions_asked) >= 3
    /\ CallOver

\* C5: answers is first-write-wins: an answer once recorded for a question
\* id is never changed or removed by any later step.
C5_FirstWriteWins ==
    [][ \A id \in DOMAIN state.killer_answers :
            /\ id \in DOMAIN state'.killer_answers
            /\ state'.killer_answers[id] = state.killer_answers[id] ]_vars

\* The id of the question asked last, for a state whose asked is not empty.
LastAsked(s) == s.killer_questions_asked[Len(s.killer_questions_asked)]

\* C5 witness: a call started in stage killer_questions while the question
\* asked last already had an answer; its text, different from that answer,
\* went through intent analysis and the call returned with the answer kept.
C5_Witness ==
    /\ pc = "returned"
    /\ pre.conversation_stage = "killer_questions"
    /\ pre.killer_questions_asked # <<>>
    /\ LastAsked(pre) \in DOMAIN pre.killer_answers
    /\ pre.last_message # ""
    /\ pre.last_message # pre.killer_answers[LastAsked(pre)]
    /\ InList("analisis_intencion", path)
    /\ state.killer_answers[LastAsked(pre)] = pre.killer_answers[LastAsked(pre)]

\* C6: conversation_ended never goes from true back to false.
C6_EndedIsMonotonic ==
    [][ state.conversation_ended => state'.conversation_ended ]_vars

\* C6 witness: a call was processed on a session that had already ended.
C6_Witness ==
    /\ pc = "returned"
    /\ pre.conversation_ended
    /\ state.conversation_ended

\* The fields of the session C7 speaks about.
SessionView(s) ==
    <<s.conversation_stage, s.messages, s.killer_questions_asked, s.killer_answers,
      s.evaluation, s.conversation_ended, s.intent>>

\* C7: a call made on an ended session changes neither stage, messages,
\* asked, answers, evaluation nor ended, classifies no intent and raises
\* no error.
C7_EndedCallChangesNothing ==
    pre.conversation_ended =>
        /\ SessionView(state) = SessionView(pre)
        /\ pc # "raised"
        /\ pc # "analisis_intencion"
        /\ ~InList("analisis_intencion", path)
        /\ state.needs_human_intervention = pre.needs_human_intervention

\* C7 witness: such a call has returned.
C7_Witness ==
    /\ pc = "returned"
    /\ pre.conversation_ended
    /\ pre.last_message # ""
    /\ path = <<"recepcion_mensaje">>

\* C8: a question asked in a call is, at the end of that call, in asked but
\* not in answers, and the stage is killer_questions; an answer recorded in
\* a call belongs to a question asked in an earlier call.
C8_AskedBeforeAnswered ==
    CallOver =>
        /\ \A id \in AskedIds(state) \ AskedIds(pre) :
              /\ state.conversation_stage = "killer_questions"
              /\ id \notin DOMAIN state.killer_answers
        /\ \A id \in (DOMAIN state.killer_answers) \ (DOMAIN pre.killer_answers) :
              id \in AskedIds(pre)

\* C9: a call that starts in stage killer_questions with every question
\* asked and whose text is not classified end_conversation records the
\* pending answer of the last asked question and computes the evaluation in
\* that very call.
C9_Precondition ==
    /\ pre.conversation_stage = "killer_questions"
    /\ pre.killer_questions # <<>>
    /\ UnaskedIds(pre) = {}
    /\ classify_intent(pre.last_message) # "end_conversation"

C9_AllAskedReachesEvaluation ==
    (CallOver /\ C9_Precondition) =>
        /\ pc = "returned"
        /\ InList("evaluacion_final", path)
        /\ state.evaluation # None
        /\ state.conversation_stage \in {"evaluation", "closing"}
        /\ LastAsked(pre) \in DOMAIN state.killer_answers
        /\ LastAsked(pre) \notin DOMAIN pre.killer_answers =>
               state.killer_answers[LastAsked(pre)] = pre.last_message

\* C9 witness: such a call has returned, and the answer was pending.
C9_Witness ==
    /\ pc = "returned"
    /\ C9_Precondition
    /\ LastAsked(pre) \notin DOMAIN pre.killer_answers
    /\ pre.evaluation = None

\* C10: a call whose text is classified end_conversation ends in stage
\* closing with ended true, and its evaluation is non-null exactly when
\* answers was non-empty when the call started.
C10_Precondition ==
    /\ InList("analisis_intencion", path)
    /\ state.intent = "end_conversation"

C10_EndConversationCloses ==
    (CallOver /\ C10_Precondition) =>
        /\ pc = "returned"
        /\ state.conversation_stage = "closing"
        /\ state.conversation_ended
        /\ (state.evaluation # None) <=> (DOMAIN pre.killer_answers # {})

\* C10 witness: end_conversation arrived before any answer was recorded and
\* the session closed without an evaluation.
C10_Witness ==
    /\ pc = "returned"
    /\ C10_Precondition
    /\ DOMAIN pre.killer_answers = {}
    /\ state.evaluation = None
    /\ state.conversation_ended

\* The call in progress is the first one of the session: it was handed a
\* state in stage greeting without messages.
C11_Precondition ==
    /\ calls > 0
    /\ pre.conversation_stage = "greeting"
    /\ pre.messages = <<>>

\* C11: the first call of a session (stage greeting, no messages) sets the
\* stage to information_gathering, emits the greeting and returns at once
\* without classifying an intent: intent stays unset, and asked, answers and
\* evaluation are untouched.
C11_FirstCallGreets ==
    (C11_Precondition /\ pc # "recepcion_mensaje") =>
        /\ pc \in {"END", "returned"}
        /\ path = <<"recepcion_mensaje">>
        /\ state.conversation_stage = "information_gathering"
        /\ state.messages = <<ConversationMessage("agent", "generate_greeting")>>
        /\ state.agent_response = "generate_greeting"
        /\ state.intent = "None"
        /\ state.killer_questions_asked = pre.killer_questions_asked
        /\ state.killer_answers = pre.killer_answers
        /\ state.evaluation = pre.evaluation
        /\ ~state.needs_human_intervention

\* C11 witness: the first call of a session with questions has returned.
C11_Witness ==
    /\ C11_Precondition
    /\ pc = "returned"
    /\ calls = 1
    /\ self_questions # <<>>
    /\ state.agent_response = "generate_greeting"

\* The topical intents, answered by respuestas_compania.
TopicalIntents == {"ask_company", "ask_job", "ask_team", "ask_location"}

\* The call in progress was made outside stage killer_questions, on a
\* session that was not ended, with a text of a topical intent.
C12_Precondition ==
    /\ ~pre.conversation_ended
    /\ pre.conversation_stage \notin {"greeting", "killer_questions"}
    /\ classify_intent(pre.last_message) \in TopicalIntents

\* C12: a call made outside stage killer_questions with a text of intent
\* ask_company, ask_job, ask_team or ask_location ends, after the topical
\* answer, in stage company_questions; and a call made in stage
\* company_questions classifies its own text afresh and is routed by that
\* intent.
C12_TopicalTurnEndsInCompanyQuestions ==
    /\ (CallOver /\ C12_Precondition) =>
          /\ pc = "returned"
          /\ state.conversation_stage = "company_questions"
          /\ state.agent_response \in {"generate_company_response", "generate_job_response"}
    /\ (CallOver /\ ~pre.conversation_ended /\ pre.conversation_stage = "company_questions") =>
          /\ InList("analisis_intencion", path)
          /\ state.intent = classify_intent(pre.last_message)

\* The call in progress was handled by the gather-data path alone: apart
\* from reception and intent analysis, obtencion_datos is the only node
\* that ran (intent provide_info, or the default branch of the routing).
C13_Precondition ==
    /\ InList("obtencion_datos", path)
    /\ \A i \in DOMAIN path :
          path[i] \in {"recepcion_mensaje", "analisis_intencion", "obtencion_datos"}

\* C13: a call handled by the provide_info path or by the default follow-up
\* path ends in stage information_gathering, whatever the stage was when
\* the call started.
C13_GatherDataEndsInInformationGathering ==
    (CallOver /\ C13_Precondition) =>
        state.conversation_stage = "information_gathering"

\* The routing conditions of C14, on the state s left by intent analysis.
C14_Precondition(s) ==
    /\ s.intent \notin {"end_conversation", "provide_info"} \cup TopicalIntents
    /\ s.conversation_stage # "killer_questions"
    /\ Len(s.messages) >= 4
    /\ s.killer_questions_asked = <<>>
    /\ s.killer_questions # <<>>

\* C14: when the intent is neither end_conversation, topical nor
\* provide_info, the stage is not killer_questions, at least 4 messages are
\* in the session and asked is empty, the run goes to the killer-question
\* node, which sets the stage to killer_questions and asks the first
\* question of the job in declaration order.
C14_FirstQuestionAfterFourMessages ==
    [][ /\ (JustRan("analisis_intencion") /\ C14_Precondition(state')) =>
              pc' = "killer_questions"
        /\ (JustRan("killer_questions") /\ C14_Precondition(state)) =>
              /\ state'.conversation_stage = "killer_questions"
              /\ state'.killer_questions_asked = <<self_questions[1].question_id>>
              /\ state'.agent_response = "generate_killer_question" ]_vars

\* C14 witness: a call that started with four or more messages and nothing
\* asked went from intent analysis straight to the first question.
C14_Witness ==
    /\ path = <<"recepcion_mensaje", "analisis_intencion", "killer_questions">>
    /\ Len(pre.messages) >= 4
    /\ pre.killer_questions_asked = <<>>
    /\ pre.conversation_stage # "killer_questions"
    /\ Len(self_questions) >= 2
    /\ state.conversation_stage = "killer_questions"
    /\ state.killer_questions_asked = <<self_questions[1].question_id>>

\* The fields of the session C15 speaks about.
C15_View(s) ==
    <<s.conversation_stage, s.messages, s.killer_questions_asked, s.killer_answers,
      s.evaluation>>

\* C15: when the graph run of a call raises, process_message sets
\* needs_human_intervention, answers with the fixed apology, and stage,
\* messages, asked, answers and evaluation are as they were when the call
\* started.
C15_FaultLeavesSessionUnchanged ==
    pc = "raised" =>
        /\ state.needs_human_intervention
        /\ state.agent_response = "apology"
        /\ C15_View(state) = C15_View(pre)

IsPrefix(a, b) == Len(a) <= Len(b) /\ a = SubSeq(b, 1, Len(a))

\* The question ids of the job, in the order get_killer_questions returns
\* them.
DeclaredIds == [i \in DOMAIN self_questions |-> self_questions[i].question_id]

\* C17: questions are asked in declaration order and asked is append-only:
\* asked is always a prefix of the job's sequence of question ids, every
\* step extends asked as a prefix, and so does every call.
C17_AskedIsPrefixOfDeclared ==
    [][ /\ IsPrefix(state'.killer_questions_asked, DeclaredIds)
        /\ IsPrefix(state.killer_questions_asked, state'.killer_questions_asked)
        /\ IsPrefix(pre'.killer_questions_asked, state'.killer_questions_asked) ]_vars

\* C17 witness: a call has ended with some, but not all, of the questions
\* asked, more than were asked when it started.
C17_Witness ==
    /\ CallOver
    /\ Len(state.killer_questions_asked) >= 2
    /\ Len(state.killer_questions_asked) < Len(self_questions)
    /\ Len(pre.killer_questions_asked) < Len(state.killer_questions_asked)

\* The result evaluate_candidate returned, in a state where it has.
EvalResult == state.evaluation[1]

\* matched_keywords of question q: its expected keywords found in its answer.
C18_Matched(q) ==
    Cardinality({j \in DOMAIN q.expected_keywords :
                    Contains(state.killer_answers[q.question_id], q.expected_keywords[j])})

RECURSIVE C18_Sum(_, _)
C18_Sum(f, n) == IF n = 0 THEN 0 ELSE f[n] + C18_Sum(f, n - 1)

RECURSIVE C18_Product(_, _)
C18_Product(f, n) == IF n = 0 THEN 1 ELSE f[n] * C18_Product(f, n - 1)

\* A common denominator of the ratios matched / |expected_keywords| (of
\* the questions that have expected keywords; without any, nothing matches).
C18_K ==
    C18_Product([i \in DOMAIN state.killer_questions |->
                    IF state.killer_questions[i].expected_keywords = <<>> THEN 1
                    ELSE Len(state.killer_questions[i].expected_keywords)],
                Len(state.killer_questions))

\* K * (sum over the answered questions of matched / |expected| * weight)
C18_Numerator ==
    C18_Sum([i \in DOMAIN state.killer_questions |->
               LET q == state.killer_questions[i]
               IN  IF q.question_id \in DOMAIN state.killer_answers
                      /\ q.expected_keywords # <<>>
                   THEN C18_Matched(q) * q.weight * (C18_K \div Len(q.expected_keywords))
                   ELSE 0],
            Len(state.killer_questions))

\* K * (sum over all questions of weight)
C18_Denominator ==
    C18_K * C18_Sum([i \in DOMAIN state.killer_questions |-> state.killer_questions[i].weight],
                    Len(state.killer_questions))

\* C18 as stated: overall_score is exactly 100 * numerator / denominator
\* (overall_score is in hundredths), and lies in [0, 100].
C18_ScoreIsExactRatio ==
    pc = "evaluated" =>
        /\ C18_Denominator > 0 =>
              EvalResult.overall_score * C18_Denominator = 100 * 100 * C18_Numerator
        /\ EvalResult.overall_score \in 0..(100 * 100)

\* C18, amended: evaluate_candidate reports overall_score as
\* 100 * (sum over answered questions of matched/|expected| * weight) /
\* (sum over all questions of weight) rounded to two decimals (off by at
\* most 0.005), and as 0 when the weights sum to 0; an unanswered question
\* adds nothing to the numerator and its weight to the denominator; the
\* result lies in [0, 100].
C18_ScoreIsRoundedRatio ==
    pc = "evaluated" =>
        LET diff == EvalResult.overall_score * C18_Denominator - 100 * 100 * C18_Numerator
        IN  /\ C18_Denominator > 0 =>
                  /\ 2 * diff <= C18_Denominator
                  /\ 2 * (0 - diff) <= C18_Denominator
            /\ C18_Denominator = 0 => EvalResult.overall_score = 0
            /\ EvalResult.overall_score \in 0..(100 * 100)

\* C18 witness: two questions of positive weight were evaluated, one
\* without an answer and one whose answer matched some keywords, and the
\* reported score is not the exact ratio.
C18_Witness ==
    /\ pc = "evaluated"
    /\ Len(state.killer_questions) = 2
    /\ \E i, j \in DOMAIN state.killer_questions :
          /\ i \notin DOMAIN state.killer_answers
          /\ state.killer_questions[i].weight > 0
          /\ j \in DOMAIN state.killer_answers
          /\ state.killer_questions[j].weight > 0
          /\ C18_Matched(state.killer_questions[j]) > 0
    /\ EvalResult.overall_score * C18_Denominator # 100 * 100 * C18_Numerator

\* The tier the thresholds give a reported score (in hundredths).
C19_Tier(overall_score) ==
    IF overall_score >= 70 * 100 THEN "high"
    ELSE IF overall_score >= 40 * 100 THEN "medium"
    ELSE "low"

\* C19: in every EvaluationResult suitability agrees with the reported
\* overall_score (high from 70, medium from 40 to below 70, low below 40)
\* and recommendation is the fixed string of that tier.
C19_SuitabilityAgreesWithScore ==
    pc = "evaluated" =>
        /\ EvalResult.suitability = C19_Tier(EvalResult.overall_score)
        /\ EvalResult.recommendation =
              CASE EvalResult.suitability = "high" ->
                     "Strong candidate. Recommend advancing to technical interview."
                [] EvalResult.suitability = "medium" ->
                     "Potential candidate. Consider for phone screen to clarify concerns."
                [] EvalResult.suitability = "low" ->
                     "Not a strong match for this role at this time."

\* C20: in a session whose job has no questions, the call that gets to the
\* killer-question node goes on to the evaluation and returns without a
\* fault, and the evaluation of such a session has overall_score 0.
C20_ZeroQuestionsEvaluateToZero ==
    self_questions = <<>> =>
        /\ (CallOver /\ InList("killer_questions", path)) =>
              /\ pc = "returned"
              /\ InList("evaluacion_final", path)
              /\ state.evaluation # None
              /\ state.conversation_stage \in {"evaluation", "closing"}
              /\ state.needs_human_intervention = pre.needs_human_intervention
        /\ state.evaluation # None =>
              /\ state.evaluation[1].overall_score = 0
              /\ state.evaluation[1].killer_questions_total = 0

\* C20 witness: a session of a job without questions has been evaluated.
C20_Witness ==
    /\ self_questions = <<>>
    /\ pc = "returned"
    /\ InList("evaluacion_final", path)
    /\ state.evaluation # None
    /\ state.evaluation[1].overall_score = 0
    /\ state.evaluation[1].suitability = "low"

\* Question q has an answer, and every expected keyword of q occurs in it.
FullyCovered(q) ==
    /\ q.question_id \in DOMAIN state.killer_answers
    /\ \A j \in DOMAIN q.expected_keywords :
          q.expected_keywords[j] \in Words(state.killer_answers[q.question_id])

\* Every question of a non-empty list has a positive weight and is fully
\* covered by its answer.
C21_Precondition ==
    /\ pc = "evaluated"
    /\ state.killer_questions # <<>>
    /\ \A i \in DOMAIN state.killer_questions :
          /\ state.killer_questions[i].weight > 0
          /\ FullyCovered(state.killer_questions[i])

\* C21 as stated: if every question has an answer that contains all of its
\* expected keywords, overall_score is 100 and suitability is high, for any
\* positive weights.
C21_FullCoverageScores100 ==
    C21_Precondition =>
        /\ EvalResult.overall_score = 100 * 100
        /\ EvalResult.suitability = "high"

\* C21, amended: if every question has at least one expected keyword and
\* an answer that contains all of its expected keywords, overall_score is
\* 100 and suitability is high, for any positive weights.
C21_FullCoverageOfKeywordsScores100 ==
    (C21_Precondition
       /\ \A i \in DOMAIN state.killer_questions :
              state.killer_questions[i].expected_keywords # <<>>) =>
        /\ EvalResult.overall_score = 100 * 100
        /\ EvalResult.suitability = "high"
        /\ EvalResult.recommendation =
              "Strong candidate. Recommend advancing to technical interview."

\* C21 witness: two required questions of equal weight with different
\* keywords, both fully covered, were evaluated to 100.
C21_Witness ==
    /\ C21_Precondition
    /\ Len(state.killer_questions) = 2
    /\ state.killer_questions[1].required /\ state.killer_questions[2].required
    /\ state.killer_questions[1].weight = state.killer_questions[2].weight
    /\ state.killer_questions[1].expected_keywords = ExpKeywords
    /\ state.killer_questions[2].expected_keywords = CloudKeywords
    /\ EvalResult.overall_score = 100 * 100

\* Question q has an answer, and no expected keyword of q occurs in it.
NoKeywordMatched(q) ==
    /\ q.question_id \in DOMAIN state.killer_answers
    /\ \A j \in DOMAIN q.expected_keywords :
          q.expected_keywords[j] \notin Words(state.killer_answers[q.question_id])

\* Exactly question i of two required questions has an answer, and the
\* answer matches none of its expected keywords.
C22_OneOfTwoUnmatched(i) ==
    /\ Len(state.killer_questions) = 2
    /\ state.killer_questions[1].required /\ state.killer_questions[2].required
    /\ DOMAIN state.killer_answers = {state.killer_questions[i].question_id}
    /\ NoKeywordMatched(state.killer_questions[i])

\* C22: an answer without keyword match contributes 0: when no provided
\* answer matches an expected keyword, overall_score is 0 and suitability
\* low; when 1 of 2 required questions is answered, without a match,
\* answered_count is 1, there is at least one concern and overall_score is
\* below 40.
C22_UnmatchedAnswersScoreZero ==
    pc = "evaluated" =>
        /\ (\A i \in DOMAIN state.killer_questions :
               state.killer_questions[i].question_id \in DOMAIN state.killer_answers =>
                   NoKeywordMatched(state.killer_questions[i])) =>
              /\ EvalResult.overall_score = 0
              /\ EvalResult.suitability = "low"
        /\ \A i \in DOMAIN state.killer_questions :
              C22_OneOfTwoUnmatched(i) =>
                  /\ EvalResult.killer_questions_answered = 1
                  /\ EvalResult.concerns # <<>>
                  /\ EvalResult.overall_score < 40 * 100

\* C22 witness: one of two required questions with positive weights and
\* expected keywords was answered without a match and evaluated.
C22_Witness ==
    /\ pc = "evaluated"
    /\ C22_OneOfTwoUnmatched(1)
    /\ state.killer_questions[1].expected_keywords = ExpKeywords
    /\ state.killer_questions[2].expected_keywords = CloudKeywords
    /\ state.killer_questions[1].weight > 0 /\ state.killer_questions[2].weight > 0
    /\ EvalResult.overall_score = 0
    /\ Len(EvalResult.concerns) >= 2

\* The concern evaluate_candidate records for a required question without
\* an answer, and the one for answered_count < total_questions.
MissingAnswerConcern(q) == <<"Did not answer required question", q.question_id>>
ShortfallConcern(r) == <<"Answered", r.killer_questions_answered, r.killer_questions_total>>

\* C23: the evaluation has a concern naming every required question whose
\* id is absent from answers and, when answered_count < total_count, the
\* shortfall concern in addition to those; hence in a session that was
\* evaluated (calls > 0: process_message has been called) every required
\* question is in asked or has its concern.
C23_MissingRequiredAnswersAreConcerns ==
    state.evaluation # None =>
        /\ \A i \in DOMAIN state.killer_questions :
              LET q == state.killer_questions[i]
              IN  /\ (q.required /\ q.question_id \notin DOMAIN state.killer_answers) =>
                        InList(MissingAnswerConcern(q), EvalResult.concerns)
                  /\ (calls > 0 /\ q.required) =>
                        \/ InList(q.question_id, state.killer_questions_asked)
                        \/ InList(MissingAnswerConcern(q), EvalResult.concerns)
        /\ EvalResult.killer_questions_answered < EvalResult.killer_questions_total =>
              /\ EvalResult.concerns # <<>>
              /\ EvalResult.concerns[Len(EvalResult.concerns)] = ShortfallConcern(EvalResult)
              /\ Cardinality({j \in DOMAIN EvalResult.concerns :
                                EvalResult.concerns[j] = ShortfallConcern(EvalResult)}) = 1

\* C23 witness: a session was evaluated while a required question had not
\* been asked; the evaluation holds its concern and the shortfall concern.
C23_Witness ==
    /\ pc = "returned"
    /\ state.evaluation # None
    /\ \E i \in DOMAIN state.killer_questions :
          /\ state.killer_questions[i].required
          /\ ~InList(state.killer_questions[i].question_id, state.killer_questions_asked)
          /\ InList(MissingAnswerConcern(state.killer_questions[i]), EvalResult.concerns)
    /\ InList(ShortfallConcern(EvalResult), EvalResult.concerns)

\* The number of expected keywords of q that occur in its answer.
MatchCount(q) ==
    Cardinality({j \in DOMAIN q.expected_keywords :
                    q.expected_keywords[j] \in Words(state.killer_answers[q.question_id])})

\* Question q is answered and more than half of its expected keywords
\* occur in the answer.
MoreThanHalfMatched(q) ==
    /\ q.question_id \in DOMAIN state.killer_answers
    /\ 2 * MatchCount(q) > Len(q.expected_keywords)

\* The strength evaluate_candidate records for question q.
Strength(q) == <<"Strong answer to", q.question_id>>

\* C24: strengths has an entry for question q exactly when q is answered
\* and strictly more than half of its expected keywords occur in the
\* answer; a ratio of exactly one half, or an empty keyword list, yields
\* no strength (and no fault).
C24_StrengthIffMoreThanHalf ==
    pc = "evaluated" =>
        /\ \A i \in DOMAIN state.killer_questions :
              InList(Strength(state.killer_questions[i]), EvalResult.strengths)
                  <=> MoreThanHalfMatched(state.killer_questions[i])
        /\ Len(EvalResult.strengths) =
              Cardinality({i \in DOMAIN state.killer_questions :
                              MoreThanHalfMatched(state.killer_questions[i])})
        /\ \A i \in DOMAIN state.killer_questions :
              state.killer_questions[i].expected_keywords = <<>> =>
                  ~InList(Strength(state.killer_questions[i]), EvalResult.strengths)

\* C24 witness: of two answered questions one had exactly half of its
\* keywords matched and got no strength, the other more and got one.
C24_Witness ==
    /\ pc = "evaluated"
    /\ Len(state.killer_questions) = 2
    /\ DOMAIN state.killer_answers = {1, 2}
    /\ state.killer_questions[1].expected_keywords = CloudKeywords
    /\ MatchCount(state.killer_questions[1]) = 2
    /\ state.killer_questions[2].expected_keywords = ExpKeywords
    /\ MatchCount(state.killer_questions[2]) = 2
    /\ EvalResult.strengths = <<Strength(state.killer_questions[2])>>

C26_AnsweredCountsAnsweredQuestions ==
    pc = "evaluated" =>
        /\ EvalResult.killer_questions_answered =
              Cardinality({i \in DOMAIN state.killer_questions :
                              state.killer_questions[i].question_id
                                  \in DOMAIN state.killer_answers})
        /\ EvalResult.killer_questions_total = Len(state.killer_questions)
        /\ EvalResult.killer_questions_answered <= EvalResult.killer_questions_total

\* The intent labels in the priority order of C27, with their keywords.
PriorityOrder ==
    <<"end_conversation", "ask_company", "ask_job", "ask_team", "ask_location",
      "provide_info", "answer_question">>

\* The keywords of intent label `intent`.
KeywordsOf(intent) ==
    LET i == CHOOSE i \in DOMAIN INTENT_KEYWORDS : INTENT_KEYWORDS[i].intent = intent
    IN  {INTENT_KEYWORDS[i].keywords[j] : j \in DOMAIN INTENT_KEYWORDS[i].keywords}

\* The intents that have a keyword in the message.
MatchedIntents(message) ==
    {PriorityOrder[i] : i \in {i \in DOMAIN PriorityOrder :
                                   KeywordsOf(PriorityOrder[i]) \cap Words(message) # {}}}

\* The first intent in priority order that has a keyword in the message.
FirstInPriority(message) ==
    IF MatchedIntents(message) = {} THEN "general_inquiry"
    ELSE PriorityOrder[CHOOSE i \in DOMAIN PriorityOrder :
                          /\ PriorityOrder[i] \in MatchedIntents(message)
                          /\ \A j \in 1..(i - 1) :
                                PriorityOrder[j] \notin MatchedIntents(message)]

\* C27: classify_intent returns the first category, in the order
\* end_conversation, ask_company, ask_job, ask_team, ask_location,
\* provide_info, answer_question, that has a keyword in the message, however
\* many keywords of later categories the message has.
C27_FirstMatchInPriorityOrderWins ==
    (pc = "classify_intent" /\ calls > 0) =>
        state.intent = FirstInPriority(state.last_message)

\* The intent labels classify_intent can return.
IntentLabels ==
    {INTENT_KEYWORDS[i].intent : i \in DOMAIN INTENT_KEYWORDS} \cup {"general_inquiry"}

\* C28: classify_intent is total and deterministic: every message gets
\* exactly one intent label, the same message always the same label, a
\* message without any keyword general_inquiry, and a message with keywords
\* of exactly one category that category.
C28_ClassifyIsTotalAndDeterministic ==
    (pc = "classify_intent" /\ calls > 0) =>
        /\ state.intent \in IntentLabels
        /\ Len(path) = calls /\ path[calls] = state.intent
        /\ MatchedIntents(state.last_message) = {} => state.intent = "general_inquiry"
        /\ Cardinality(MatchedIntents(state.last_message)) = 1 =>
              state.intent \in MatchedIntents(state.last_message)
        /\ \A i, j \in DOMAIN path :
              state.messages[i].content = state.messages[j].content => path[i] = path[j]

\* C28 witness: a message with keywords of one category was classified
\* twice, with a message without keywords in between.
C28_Witness ==
    /\ pc = "classify_intent"
    /\ calls = 3
    /\ state.messages[1].content = state.messages[3].content
    /\ Cardinality(MatchedIntents(state.messages[1].content)) = 1
    /\ MatchedIntents(state.messages[2].content) = {}
    /\ path[1] = path[3]
    /\ path[2] = "general_inquiry"

\* The last step of the current call was a failed classify_intent.
ClassifierFailed ==
    path # <<>> /\ path[Len(path)] = "ClassifierUnavailable"

\* C29: when the intent classifier fails during a turn, the orchestrator
\* falls back to the general_inquiry intent and the turn goes on through
\* normal routing: the call is not aborted and needs_human_intervention is
\* left as it was.
C29_ClassifierFailureFallsBack ==
    ClassifierFailed =>
        /\ pc # "raised"
        /\ state.intent = "general_inquiry"
        /\ state.needs_human_intervention = pre.needs_human_intervention

\* The agent was constructed for a job id the repository does not hold.
JobNotFound ==
    \E job_id \in RequestedJobIds :
        /\ get_job_offer(job_id) = None
        /\ self_questions = _killer_questions_db_get(job_id)

\* C30: when the requested job is not in the repository, the lookup returns
\* nothing, no other job's questions take its place, and no conversation is
\* started: no call is processed, no greeting is sent and the session
\* state stays as constructed.
C30_UnknownJobCannotStart ==
    JobNotFound =>
        /\ self_questions = <<>>
        /\ state.killer_questions = <<>>
        /\ pc = "new"
        /\ calls = 0
        /\ state = AgentState

\* C31: constructing a question with a weight outside (0,1] is refused and
\* makes no question, for a weight above 1 and for a weight of 0 or less
\* alike; a weight inside the range is stored unchanged.
C31_WeightOutsideHalfOpenRangeRejected ==
    pc = "KillerQuestion" =>
        \A i \in DOMAIN path :
            IF path[i].weight > 0 /\ path[i].weight <= 100
            THEN path[i].made # None /\ path[i].made[1].weight = path[i].weight
            ELSE path[i].made = None

\* What the claim compares between the two runs.
RoutingView(s) ==
    [conversation_stage |-> s.conversation_stage,
     killer_questions_asked |-> s.killer_questions_asked,
     killer_answers |-> s.killer_answers,
     evaluation |-> s.evaluation,
     conversation_ended |-> s.conversation_ended]

\* C32: routing never depends on generated text: two runs of one session on
\* the same inbound messages that differ only in the texts the phrasing
\* service returned execute the same nodes and agree on stage, asked,
\* answers, evaluation and ended.
C32_RoutingIgnoresGeneratedText ==
    /\ pc # "diverged"
    /\ RoutingView(state) = RoutingView(pre)

\* C32 witness: a call is over in which both runs went through the question
\* loop to the evaluation, with different generated texts in the histories.
C32_Witness ==
    /\ pc = "returned"
    /\ state.evaluation # None
    /\ state.conversation_ended
    /\ Len(state.killer_questions_asked) >= 2
    /\ state.messages # pre.messages
    /\ state.agent_response # pre.agent_response

\* What a session holds for the claim; its questions are the agent's list
\* once _receive_message_node has assigned it.
IndependentView(s, questions) ==
    [conversation_stage |-> s.conversation_stage,
     messages |-> s.messages,
     killer_questions |-> IF s.killer_questions = <<>> THEN <<>> ELSE questions,
     killer_questions_asked |-> s.killer_questions_asked,
     killer_answers |-> s.killer_answers,
     evaluation |-> s.evaluation]

C34_AttemptedDenominator ==
    C18_K * C18_Sum([i \in DOMAIN state.killer_questions |->
                       LET q == state.killer_questions[i]
                       IN  IF q.question_id \in DOMAIN state.killer_answers
                              \/ InList(q.question_id, state.killer_questions_asked)
                           THEN q.weight
                           ELSE 0],
                    Len(state.killer_questions))

\* C34: overall_score is normalised by the sum of the weights of the
\* answered or attempted questions only: it is 100 * (weighted sum of the
\* answered questions' ratios) / (sum of the weights of the questions
\* answered or asked), to two decimals, so a question never asked and never
\* answered does not lower it.
C34_NormalisedByAttemptedWeights ==
    pc = "evaluated" =>
        LET diff == EvalResult.overall_score * C34_AttemptedDenominator
                        - 100 * 100 * C18_Numerator
        IN  C34_AttemptedDenominator > 0 =>
                /\ 2 * diff <= C34_AttemptedDenominator
                /\ 2 * (0 - diff) <= C34_AttemptedDenominator

\* The step is an execution of the node analisis_intencion.
IntentStep == pc = "analisis_intencion" /\ path' = Append(path, "analisis_intencion")

\* The node the precedence of C35 sends a classified message to.
C35_Expected(s, intent) ==
    IF intent = "end_conversation"
    THEN (IF DOMAIN s.killer_answers # {} THEN "evaluacion_final" ELSE "finalizar_chat")
    ELSE IF s.conversation_stage = "killer_questions"
    THEN (IF \A i \in DOMAIN s.killer_questions :
                 InList(s.killer_questions[i].question_id, s.killer_questions_asked)
          THEN "evaluacion_final" ELSE "killer_questions")
    ELSE IF intent \in TopicalIntents THEN "respuestas_compania"
    ELSE IF intent = "provide_info" THEN "obtencion_datos"
    ELSE IF Len(s.messages) >= 4 /\ s.killer_questions_asked = <<>> THEN "killer_questions"
    ELSE "obtencion_datos"

C36_GoodbyeIsNotAnAnswer ==
    (/\ pc \in Nodes \cup {"END", "returned", "raised"}
     /\ pre.messages # <<>>
     /\ classify_intent(pre.last_message) = "end_conversation") =>
        state.killer_answers = pre.killer_answers

\* The ids of the questions of the agent's job.
JobQuestionIds == {self_questions[i].question_id : i \in DOMAIN self_questions}

\* C37: in every reachable session state the keys of killer_answers are ids
\* in killer_questions_asked, and every id in killer_questions_asked is the
\* id of a question of the session's job.
C37_AnswersOnlyForAskedQuestions ==
    /\ DOMAIN state.killer_answers \subseteq AskedIds(state)
    /\ AskedIds(state) \subseteq JobQuestionIds

\* C37 witness: some questions are asked and not all of them answered yet,
\* in the middle of a call.
C37_Witness ==
    /\ pc = "analisis_intencion"
    /\ Cardinality(AskedIds(state)) >= 2
    /\ DOMAIN state.killer_answers # {}
    /\ DOMAIN state.killer_answers # AskedIds(state)
    /\ AskedIds(state) # JobQuestionIds

\* C38: closing is terminal and coincides with ended: in every reachable
\* state conversation_ended is true exactly when the stage is closing, and
\* once the stage is closing no step of a later call changes it.
C38_ClosingIsTerminal ==
    /\ [](state.conversation_ended <=> state.conversation_stage = "closing")
    /\ [][state.conversation_stage = "closing" =>
             state'.conversation_stage = "closing"]_vars

\* C38 witness: a call with a topical message was processed and returned
\* on a session that was already closing.
C38_Witness ==
    /\ pc = "returned"
    /\ pre.conversation_stage = "closing"
    /\ classify_intent(pre.last_message) \in TopicalIntents
    /\ path = <<"recepcion_mensaje">>
    /\ state.conversation_stage = "closing"

CountOf(list, x) == Cardinality({i \in DOMAIN list : list[i] = x})

\* C40: in the graph of src/main.py every invocation terminates at
\* finalizar_chat with finalizado true; within one invocation the
\* killer_questions node runs at most len(killer_questions) + 1 times,
\* because every repeated visit either stores a strictly larger
\* pregunta_actual_indice or leaves the loop, and the index never exceeds
\* len(killer_questions).
C40_MainGraphTerminates ==
    /\ [](/\ CountOf(path, "killer_questions") <= Len(state.killer_questions) + 1
          /\ state.pregunta_actual_indice <= Len(state.killer_questions)
          /\ pc \in {"END", "returned"} =>
                /\ path[Len(path)] = "finalizar_chat"
                /\ state.finalizado
                /\ state.estado_actual = "finalizado")
    /\ [][(/\ pc = "killer_questions"
           /\ path # <<>> /\ path[Len(path)] = "killer_questions"
           /\ pc' = "killer_questions") =>
              state'.pregunta_actual_indice > state.pregunta_actual_indice]_vars
    /\ (pc = "recepcion_mensaje" ~> pc = "returned")

\* C40 witness: an invocation asked and evaluated four questions in one
\* run, the node running five times, and returned finalised.
C40_Witness ==
    /\ pc = "returned"
    /\ Len(state.killer_questions) = 4
    /\ CountOf(path, "killer_questions") = 5
    /\ state.finalizado
    /\ state.puntuacion_idoneidad = "alta"
    /\ \A i \in 1..4 : state.killer_questions[i].evaluacion # "None"

====
